---- MODULE Spec2Model ----
(***************************************************************************)
(* rlox: a single-pass Pratt compiler (scanner, parser, bytecode emitter)  *)
(* and the stack VM that runs its chunks.                                  *)
(*                                                                         *)
(* The scanner and the compiler are pure functions of the source text and  *)
(* are written as operators over records that mirror the Rust structs      *)
(* (Scanner, Parser, Compiler, CompilerManager).  The VM is the state      *)
(* machine: one action for interpret (compile, push, call) and one action  *)
(* per instruction of VM::run.                                             *)
(*                                                                         *)
(* Indices are 0-based as in the source; At(s, i) reads s[i].              *)
(* A Rust panic (index out of bounds, usize underflow) ends the process:   *)
(* the model records it as status = "panicked".                            *)
(***************************************************************************)
EXTENDS Integers, Sequences, FiniteSets, TLC

(***************************************************************************)
(* The state of the VM and of its driver                                   *)
(***************************************************************************)
VARIABLES
    frames,                 \* VM.frames: the CallFrame stack
    stack,                  \* VM.stack: the cells written so far (others hold Nil)
    stack_top,              \* VM.stack_top
    globals,                \* VM.globals
    printed_values,         \* VM.printed_values
    latest_error_message,   \* VM.latest_error_message
    error_trace,            \* the stack trace runtime_error last wrote to stderr
    frame,                  \* the local `frame` of VM::run (a clone)
    status,                 \* "idle", "running" (inside VM::run) or "panicked"
    result,                 \* what the last interpret returned, "None" before
    program,                \* the name of the source of the last interpret call
    interprets,             \* the number of interpret calls so far
    programs,               \* the names of the sources the driver may run
    manager,                \* a CompilerManager that a parser is driving
    twin                    \* how another VM::new() ended on the same source

vars == <<frames, stack, stack_top, globals, printed_values,
          latest_error_message, error_trace, frame, status, result, program,
          interprets, programs, manager, twin>>

(***************************************************************************)
(* Generic helpers                                                         *)
(***************************************************************************)
At(s, i) == s[i + 1]

SetAt(s, i, v) == [s EXCEPT ![i + 1] = v]

Last(s) == s[Len(s)]

Front(s) == SubSeq(s, 1, Len(s) - 1)

\* The characters source[from .. to) of a text, as a string.
Collect(source, from, to) == SubSeq(source, from + 1, to)

\* u8 truncation of a usize (`x as u8`).
AsU8(x) == x % 256

\* u8::MAX
U8_MAX == 255

\* `let x = e; body` is written Let([x \in {e} |-> body]): the value of the
\* one-point function.
Let(fn) == fn[CHOOSE d \in DOMAIN fn : TRUE]

\* A loop of the compiler, `while c { body }`, is an operator x_loop(s, k, grow)
\* over the loop's state s, evaluated by doubling so that the evaluation nests
\* logarithmically in the number of iterations: x_loop(s, k, FALSE) runs at
\* most 2^k iterations from s, and x_loop(s, 0, TRUE) runs the loop to its end,
\* in rounds of 1, 2, 4, ... iterations.

(***************************************************************************)
(* value/value.rs, value/function.rs, value/native_function.rs, chunk.rs   *)
(***************************************************************************)
\* Number(f64).  The payload is a rational num/den in lowest terms, den > 0;
\* den = 0 encodes the non-finite results of a division by zero:
\* 1/0 = inf, -1/0 = -inf, 0/0 = NaN.
RECURSIVE Gcd(_, _)
Gcd(a, b) == IF b = 0 THEN a ELSE Gcd(b, a % b)

Abs(x) == IF x < 0 THEN -x ELSE x

Sign(x) == IF x < 0 THEN -1 ELSE IF x > 0 THEN 1 ELSE 0

F64(n, d) ==
    IF d = 0 THEN [num |-> Sign(n), den |-> 0]
    ELSE LET g == Gcd(Abs(n), Abs(d))
             s == IF d < 0 THEN -1 ELSE 1
         IN  [num |-> (s * n) \div g, den |-> (s * d) \div g]

IsNaN(x) == x.den = 0 /\ x.num = 0

F64Neg(x) == [num |-> -x.num, den |-> x.den]

F64Add(x, y) ==
    IF x.den = 0 /\ y.den = 0
    THEN (IF x.num = y.num THEN x ELSE F64(0, 0))
    ELSE IF x.den = 0 THEN x
    ELSE IF y.den = 0 THEN y
    ELSE F64(x.num * y.den + y.num * x.den, x.den * y.den)

F64Sub(x, y) == F64Add(x, F64Neg(y))

F64Mul(x, y) ==
    IF x.den = 0 \/ y.den = 0
    THEN F64(Sign(x.num) * Sign(y.num), 0)
    ELSE F64(x.num * y.num, x.den * y.den)

F64Div(x, y) ==
    IF x.den = 0 /\ y.den = 0 THEN F64(0, 0)
    ELSE IF y.den = 0 THEN (IF IsNaN(y) THEN F64(0, 0) ELSE F64(0, 1))
    ELSE IF x.den = 0 THEN (IF IsNaN(x) THEN x
                            ELSE F64(x.num * (IF y.num < 0 THEN -1 ELSE 1), 0))
    ELSE F64(x.num * y.den, x.den * y.num)

F64Eq(x, y) == ~IsNaN(x) /\ ~IsNaN(y) /\ x = y

F64Less(x, y) ==
    /\ ~IsNaN(x)
    /\ ~IsNaN(y)
    /\ IF x.den = 0 /\ y.den = 0 THEN x.num < y.num
       ELSE IF x.den = 0 THEN x.num < 0
       ELSE IF y.den = 0 THEN y.num > 0
       ELSE x.num * y.den < y.num * x.den

\* enum Value
Nil == [t |-> "Nil"]

Boolean(b) == [t |-> "Boolean", b |-> b]

Number(x) == [t |-> "Number", n |-> x]

String(s) == [t |-> "String", s |-> s]

FunctionValue(f) == [t |-> "Function", f |-> f]

NativeFunctionValue(f) == [t |-> "NativeFunction", f |-> f]

\* binary_arithmetic_op!: Ok(Number) on two numbers, Err otherwise.
binary_arithmetic_op(op, v1, v2) ==
    IF v1.t = "Number" /\ v2.t = "Number"
    THEN [ok |-> TRUE,
          v  |-> Number(CASE op = "OpAdd"      -> F64Add(v1.n, v2.n)
                          [] op = "OpSubtract" -> F64Sub(v1.n, v2.n)
                          [] op = "OpMultiply" -> F64Mul(v1.n, v2.n)
                          [] op = "OpDivide"   -> F64Div(v1.n, v2.n))]
    ELSE [ok |-> FALSE]

\* binary_boolean_op!: Ok(Boolean) on two numbers, Err otherwise.
binary_boolean_op(op, v1, v2) ==
    IF v1.t = "Number" /\ v2.t = "Number"
    THEN [ok |-> TRUE,
          v  |-> Boolean(CASE op = "OpGreater" -> F64Less(v2.n, v1.n)
                           [] op = "OpLess"    -> F64Less(v1.n, v2.n))]
    ELSE [ok |-> FALSE]

concatenate_strings(v1, v2) ==
    IF v1.t = "String" /\ v2.t = "String"
    THEN [ok |-> TRUE, v |-> String(v1.s \o v2.s)]
    ELSE [ok |-> FALSE]

equals(v1, v2) ==
    CASE v1.t = "Boolean" -> v2.t = "Boolean" /\ v1.b = v2.b
      [] v1.t = "Number"  -> v2.t = "Number" /\ F64Eq(v1.n, v2.n)
      [] v1.t = "Nil"     -> v2.t = "Nil"
      [] v1.t = "String"  -> v2.t = "String" /\ v1.s = v2.s
      [] OTHER            -> FALSE

is_string(v) == v.t = "String"

is_falsey(v) ==
    CASE v.t = "Nil"     -> TRUE
      [] v.t = "Boolean" -> ~v.b
      [] OTHER           -> FALSE

\* Chunk::new, Function::new
NewChunk == [bytecode |-> <<>>, lines |-> <<>>, constants |-> <<>>]

NewFunction == [arity |-> 0, name |-> "", chunk |-> NewChunk]

\* Chunk::write
write(chunk, instruction, line) ==
    [chunk EXCEPT !.bytecode = Append(@, instruction),
                  !.lines = Append(@, line)]

read_code(chunk, index) == At(chunk.bytecode, index)

read_constant(chunk, index) == At(chunk.constants, index)

\* Chunk::add_constant: the chunk with the constant pushed; its index is
\* Len(constants) - 1 of the result.
add_constant(chunk, value) == [chunk EXCEPT !.constants = Append(@, value)]

\* enum Instruction
I0(op) == [op |-> op]

I1(op, arg) == [op |-> op, arg |-> arg]

(***************************************************************************)
(* scanner.rs                                                              *)
(***************************************************************************)
NUL == "\\0"

Digits == {"0", "1", "2", "3", "4", "5", "6", "7", "8", "9"}

Letters ==
    {"a", "b", "c", "d", "e", "f", "g", "h", "i", "j", "k", "l", "m",
     "n", "o", "p", "q", "r", "s", "t", "u", "v", "w", "x", "y", "z",
     "A", "B", "C", "D", "E", "F", "G", "H", "I", "J", "K", "L", "M",
     "N", "O", "P", "Q", "R", "S", "T", "U", "V", "W", "X", "Y", "Z"}

is_digit(c) == c \in Digits

is_alpha(c) == c \in Letters \/ c = "_"

\* Scanner::init.  Scanner::source is the chars of the text followed by '\0':
\* the record keeps the text, and source_at reads the vector.
ScannerInit(source) ==
    [source |-> source, start |-> 0, current |-> 0, line |-> 1]

source_at(sc, i) ==
    IF i = Len(sc.source) THEN NUL ELSE Collect(sc.source, i, i + 1)

sc_is_at_end(sc) == source_at(sc, sc.current) = NUL

sc_peek(sc) == source_at(sc, sc.current)

sc_peek_next(sc) ==
    IF sc_is_at_end(sc) THEN NUL ELSE source_at(sc, sc.current + 1)

sc_advance(sc) == [sc EXCEPT !.current = @ + 1]

make_token(sc, token_type) ==
    [token_type |-> token_type,
     start      |-> sc.start,
     length     |-> sc.current - sc.start,
     line       |-> sc.line]

\* match_char: the scanner after the attempt; it moved iff the char matched.
match_char(sc, expected) ==
    IF sc_is_at_end(sc) THEN sc
    ELSE IF sc_peek(sc) # expected THEN sc
    ELSE sc_advance(sc)

RECURSIVE skip_comment(_)
skip_comment(sc) ==
    IF ~sc_is_at_end(sc) /\ sc_peek(sc) # "\n"
    THEN skip_comment(sc_advance(sc))
    ELSE sc

RECURSIVE skip_whitespace(_)
skip_whitespace(sc) ==
    IF sc_is_at_end(sc) THEN sc
    ELSE Let([c \in {sc_peek(sc)} |->
         IF c \in {" ", "\r", "\t"} THEN skip_whitespace(sc_advance(sc))
         ELSE IF c = "\n"
              THEN skip_whitespace(sc_advance([sc EXCEPT !.line = @ + 1]))
         ELSE IF c = "/"
              THEN (IF sc_peek_next(sc) = "/"
                    THEN skip_whitespace(skip_comment(sc))
                    ELSE sc)
         ELSE sc])

RECURSIVE string_body(_)
string_body(sc) ==
    IF ~sc_is_at_end(sc) /\ sc_peek(sc) # "\""
    THEN string_body(sc_advance(IF sc_peek(sc) = "\n"
                                THEN [sc EXCEPT !.line = @ + 1]
                                ELSE sc))
    ELSE sc

\* Scanner::string
sc_string(sc) ==
    Let([s1 \in {string_body(sc)} |->
    IF sc_is_at_end(s1)
    THEN [tok |-> make_token(s1, "Error(UnterminatedString)"), sc |-> s1]
    ELSE Let([s2 \in {sc_advance(s1)} |->
         [tok |-> make_token(s2, "String"), sc |-> s2]])])

RECURSIVE skip_digits(_)
skip_digits(sc) ==
    IF is_digit(sc_peek(sc)) THEN skip_digits(sc_advance(sc)) ELSE sc

\* Scanner::number
sc_number(sc) ==
    Let([s1 \in {skip_digits(sc)} |->
    Let([s2 \in {IF sc_peek(s1) = "." /\ is_digit(sc_peek_next(s1))
        THEN skip_digits(sc_advance(s1))
        ELSE s1} |->
    [tok |-> make_token(s2, "Number"), sc |-> s2]])])

\* Scanner::check_keyword
check_keyword(sc, start, length, rest, token_type) ==
    IF sc.current - sc.start # start + length THEN "Identifier"
    ELSE IF Collect(sc.source, sc.start + start, sc.current) # rest
         THEN "Identifier"
    ELSE token_type

\* Scanner::identifier_type
identifier_type(sc) ==
    LET c == source_at(sc, sc.start)
        long == sc.current - sc.start > 1
        c1 == source_at(sc, sc.start + 1)
    IN  CASE c = "a" -> check_keyword(sc, 1, 2, "nd", "And")
          [] c = "c" -> check_keyword(sc, 1, 4, "lass", "Class")
          [] c = "e" -> check_keyword(sc, 1, 3, "lse", "Else")
          [] c = "i" -> check_keyword(sc, 1, 1, "f", "If")
          [] c = "n" -> check_keyword(sc, 1, 2, "il", "Nil")
          [] c = "o" -> check_keyword(sc, 1, 1, "r", "Or")
          [] c = "p" -> check_keyword(sc, 1, 4, "rint", "Print")
          [] c = "r" -> check_keyword(sc, 1, 5, "eturn", "Return")
          [] c = "s" -> check_keyword(sc, 1, 4, "uper", "Super")
          [] c = "v" -> check_keyword(sc, 1, 2, "ar", "Var")
          [] c = "w" -> check_keyword(sc, 1, 4, "hile", "While")
          [] c = "f" /\ long ->
                (CASE c1 = "a" -> check_keyword(sc, 2, 3, "lse", "False")
                   [] c1 = "o" -> check_keyword(sc, 2, 1, "r", "For")
                   [] c1 = "u" -> check_keyword(sc, 2, 1, "n", "Fun")
                   [] OTHER    -> "Identifier")
          [] c = "t" /\ long ->
                (CASE c1 = "h" -> check_keyword(sc, 2, 2, "is", "This")
                   [] c1 = "r" -> check_keyword(sc, 2, 2, "ue", "True")
                   [] OTHER    -> "Identifier")
          [] OTHER -> "Identifier"

RECURSIVE skip_alnum(_)
skip_alnum(sc) ==
    IF is_alpha(sc_peek(sc)) \/ is_digit(sc_peek(sc))
    THEN skip_alnum(sc_advance(sc))
    ELSE sc

\* Scanner::identifier
sc_identifier(sc) ==
    Let([s1 \in {skip_alnum(sc)} |->
    [tok |-> make_token(s1, identifier_type(s1)), sc |-> s1]])

\* One- or two-character operator: `two` when the next char is '='.
one_or_two(sc, one, two) ==
    Let([s1 \in {match_char(sc, "=")} |->
    [tok |-> make_token(s1, IF s1.current # sc.current THEN two ELSE one),
     sc  |-> s1]])

\* Scanner::scan_token: the token and the scanner after it.
\* A token that ends at the scanner's position, with the scanner unchanged.
single(sc, token_type) == [tok |-> make_token(sc, token_type), sc |-> sc]

\* Scanner::scan_token: the token and the scanner after it.
scan_token(sc0) ==
    Let([s0 \in {skip_whitespace(sc0)} |->
    IF sc_is_at_end(s0) THEN single([s0 EXCEPT !.start = s0.current], "Eof")
    ELSE
    Let([c \in {sc_peek(s0)} |->
    Let([s2 \in {sc_advance([s0 EXCEPT !.start = s0.current])} |->
    CASE c = "(" -> single(s2, "LeftParen")
      [] c = ")" -> single(s2, "RightParen")
      [] c = "{" -> single(s2, "LeftBrace")
      [] c = "}" -> single(s2, "RightBrace")
      [] c = ";" -> single(s2, "Semicolon")
      [] c = "," -> single(s2, "Comma")
      [] c = "." -> single(s2, "Dot")
      [] c = "-" -> single(s2, "Minus")
      [] c = "+" -> single(s2, "Plus")
      [] c = "/" -> single(s2, "Slash")
      [] c = "*" -> single(s2, "Star")
      [] c = "!" -> one_or_two(s2, "Bang", "BangEqual")
      [] c = "=" -> one_or_two(s2, "Equal", "EqualEqual")
      [] c = "<" -> one_or_two(s2, "Less", "LessEqual")
      [] c = ">" -> one_or_two(s2, "Greater", "GreaterEqual")
      [] c = "\"" -> sc_string(s2)
      [] is_digit(c) -> sc_number(s2)
      [] is_alpha(c) -> sc_identifier(s2)
      [] OTHER -> single(s2, "Error(UnexpectedCharacter)")])])])

(***************************************************************************)
(* parser.rs, compiler.rs                                                  *)
(***************************************************************************)
\* enum Precedence, as the integers of `Precedence::X as i32`.
PrecNone == 0
PrecAssignment == 1
PrecOr == 2
PrecAnd == 3
PrecEquality == 4
PrecComparison == 5
PrecTerm == 6
PrecFactor == 7
PrecUnary == 8
PrecCall == 9
PrecPrimary == 10

ParseRule(prefix, infix, precedence) ==
    [prefix |-> prefix, infix |-> infix, precedence |-> precedence]

\* CompilerManager::rules
rules(token_type) ==
    CASE token_type = "LeftParen"    -> ParseRule("Grouping", "Call", PrecCall)
      [] token_type = "Minus"        -> ParseRule("Unary", "Binary", PrecTerm)
      [] token_type = "Plus"         -> ParseRule("None", "Binary", PrecTerm)
      [] token_type = "Slash"        -> ParseRule("None", "Binary", PrecFactor)
      [] token_type = "Star"         -> ParseRule("None", "Binary", PrecFactor)
      [] token_type = "Bang"         -> ParseRule("Unary", "None", PrecNone)
      [] token_type = "BangEqual"    -> ParseRule("None", "Binary", PrecEquality)
      [] token_type = "EqualEqual"   -> ParseRule("None", "Binary", PrecEquality)
      [] token_type = "Greater"      -> ParseRule("None", "Binary", PrecComparison)
      [] token_type = "GreaterEqual" -> ParseRule("None", "Binary", PrecComparison)
      [] token_type = "Less"         -> ParseRule("None", "Binary", PrecComparison)
      [] token_type = "LessEqual"    -> ParseRule("None", "Binary", PrecComparison)
      [] token_type = "Identifier"   -> ParseRule("Variable", "None", PrecNone)
      [] token_type = "String"       -> ParseRule("String", "None", PrecNone)
      [] token_type = "Number"       -> ParseRule("Number", "None", PrecNone)
      [] token_type = "And"          -> ParseRule("None", "And", PrecAnd)
      [] token_type = "False"        -> ParseRule("Literal", "None", PrecNone)
      [] token_type = "Nil"          -> ParseRule("Literal", "None", PrecNone)
      [] token_type = "Or"           -> ParseRule("None", "Or", PrecOr)
      [] token_type = "True"         -> ParseRule("Literal", "None", PrecNone)
      [] OTHER                       -> ParseRule("None", "None", PrecNone)

ErrorTokenTypes ==
    {"Error(UnexpectedCharacter)", "Error(UnterminatedString)",
     "Error(UninitializedToken)"}

\* Parser::init
ParserInit ==
    LET placeholder_token == [token_type |-> "Error(UninitializedToken)",
                              start |-> 0, length |-> 0, line |-> 0]
    IN  [current       |-> placeholder_token,
         previous      |-> placeholder_token,
         had_error     |-> FALSE,
         panic_mode    |-> FALSE,
         error_message |-> ""]

\* Compiler::new
NewCompiler(function_type) ==
    [function      |-> NewFunction,
     function_type |-> function_type,
     locals        |-> <<>>,
     scope_depth   |-> 0]

Local(name, depth) == [name |-> name, depth |-> depth]

current_compiler(m) == At(m.compilers, m.current)

\* `*self.current_compiler() = c`
with_current_compiler(m, c) == [m EXCEPT !.compilers = SetAt(@, m.current, c)]

current_chunk(m) == current_compiler(m).function.chunk

with_current_chunk(m, chunk) ==
    with_current_compiler(m, [current_compiler(m) EXCEPT !.function.chunk = chunk])

lexeme_to_string(m, token) ==
    Collect(m.scanner.source, token.start, token.start + token.length)

section_to_string(m, start, length) ==
    Collect(m.scanner.source, start, start + length)

\* error_at as it would be without the test of panic_mode.
error_at_in_panic(m, token, message) ==
    [m EXCEPT !.parser.panic_mode = TRUE,
              !.stderr = Append(@, message),
              !.parser.had_error = TRUE,
              !.parser.error_message = message]

\* CompilerManager::error_at; stderr is the sequence of the messages it has
\* written with eprintln.
error_at(m, token, message) ==
    IF m.parser.panic_mode THEN m
    ELSE [m EXCEPT !.parser.panic_mode = TRUE,
                   !.stderr = Append(@, message),
                   !.parser.had_error = TRUE,
                   !.parser.error_message = message]

\* CompilerManager::error
error(m, message) == error_at(m, m.parser.previous, message)

scanner_error_message(token_type) ==
    CASE token_type = "Error(UnexpectedCharacter)" -> "Unexpected character."
      [] token_type = "Error(UnterminatedString)"  -> "Unterminated string."
      [] token_type = "Error(UninitializedToken)"  -> "Uninitialized token."

\* The loop of advance as it would be if it reported an Error token and
\* left it as the current token.
advance_scan_once(m) ==
    Let([r \in {scan_token(m.scanner)} |->
    IF r.tok.token_type \in ErrorTokenTypes
    THEN error_at([m EXCEPT !.scanner = r.sc, !.parser.current = r.tok],
                  r.tok, scanner_error_message(r.tok.token_type))
    ELSE [m EXCEPT !.scanner = r.sc, !.parser.current = r.tok]])

\* The loop of CompilerManager::advance: scan, report and skip Error tokens.
RECURSIVE advance_scan(_)
advance_scan(m) ==
    Let([r \in {scan_token(m.scanner)} |->
    IF r.tok.token_type \in ErrorTokenTypes
    THEN advance_scan(error_at([m EXCEPT !.scanner = r.sc,
                                         !.parser.current = r.tok],
                               r.tok, scanner_error_message(r.tok.token_type)))
    ELSE [m EXCEPT !.scanner = r.sc, !.parser.current = r.tok]])

\* CompilerManager::advance
advance(m) == advance_scan([m EXCEPT !.parser.previous = m.parser.current])

\* CompilerManager::consume
consume(m, token_type, message) ==
    IF m.parser.current.token_type = token_type THEN advance(m)
    ELSE error_at(m, m.parser.current, message)

check(m, tt) == m.parser.current.token_type = tt

\* CompilerManager::match_token: r is the returned bool.
match_token(m, tt) ==
    IF ~check(m, tt) THEN [m |-> m, r |-> FALSE]
    ELSE [m |-> advance(m), r |-> TRUE]

\* CompilerManager::emit_instruction
emit_instruction(m, instruction) ==
    with_current_chunk(m, write(current_chunk(m), instruction,
                                m.parser.previous.line))

emit_instructions(m, i_1, i_2) ==
    emit_instruction(emit_instruction(m, i_1), i_2)

\* CompilerManager::make_constant: r is the returned index.
make_constant(m, value) ==
    Let([m1 \in {with_current_chunk(m, add_constant(current_chunk(m), value))} |->
    Let([constant_index \in {Len(current_chunk(m1).constants) - 1} |->
    IF AsU8(constant_index) > 255
    THEN [m |-> error(m1, "Too many constants in one chunk."), r |-> 0]
    ELSE [m |-> m1, r |-> constant_index]])])

\* CompilerManager::emit_constant
emit_constant(m, value) ==
    Let([c \in {make_constant(m, value)} |->
    emit_instruction(c.m, I1("OpConstant", c.r))])

\* CompilerManager::end: r is the compiled function.
end(m) ==
    Let([m1 \in {emit_instruction(m, I0("OpReturn"))} |->
    [m |-> [m1 EXCEPT !.current = @ - 1],
     r |-> current_compiler(m1).function]])

\* CompilerManager::begin_scope
begin_scope(m) ==
    with_current_compiler(m, [current_compiler(m) EXCEPT !.scope_depth = @ + 1])

\* The loop of end_scope: `for i in (0..len).rev()`, c = [m, i] the manager
\* and the index still to visit.
RECURSIVE end_scope_loop(_, _, _)
end_scope_loop(c, k, grow) ==
    CASE c.i < 0 -> c
      [] c.i >= 0 /\ grow ->
            end_scope_loop(end_scope_loop(c, k, FALSE), k + 1, TRUE)
      [] c.i >= 0 /\ ~grow /\ k > 0 ->
            end_scope_loop(end_scope_loop(c, k - 1, FALSE), k - 1, FALSE)
      [] OTHER ->
            IF At(current_compiler(c.m).locals, c.i).depth
                   > current_compiler(c.m).scope_depth
            THEN Let([m1 \in {emit_instruction(c.m, I0("OpPop"))} |->
                 [m |-> with_current_compiler(m1,
                            [current_compiler(m1) EXCEPT !.locals = Front(@)]),
                  i |-> c.i - 1]])
            ELSE [m |-> c.m, i |-> c.i - 1]

\* end_scope as it would be if it removed the locals and emitted no Pop.
end_scope_without_pop(m) ==
    Let([c \in {current_compiler(m)} |->
    with_current_compiler(m,
        [c EXCEPT !.scope_depth = @ - 1,
                  !.locals = SelectSeq(@, LAMBDA l :
                                 l.depth <= c.scope_depth - 1)])])

\* CompilerManager::end_scope
end_scope(m) ==
    Let([m1 \in {with_current_compiler(m,
            [current_compiler(m) EXCEPT !.scope_depth = @ - 1])} |->
    end_scope_loop([m |-> m1, i |-> Len(current_compiler(m1).locals) - 1],
                   0, TRUE).m])

\* CompilerManager::identifiers_equal
identifiers_equal(m, t_1, t_2) ==
    /\ t_1.length = t_2.length
    /\ lexeme_to_string(m, t_1) = lexeme_to_string(m, t_2)

\* CompilerManager::identifier_constant
identifier_constant(m, name) ==
    make_constant(m, String(lexeme_to_string(m, name)))

\* CompilerManager::add_local
add_local(m, name) ==
    IF AsU8(Len(current_compiler(m).locals)) = U8_MAX
    THEN error(m, "Too many local variables in function.")
    ELSE with_current_compiler(m,
             [current_compiler(m) EXCEPT !.locals = Append(@, Local(name, -1))])

\* The loop of declare_variable as it would be if it went through the locals
\* of the enclosing scopes as well.
declared_in_function(m, name) ==
    Let([locals \in {current_compiler(m).locals} |->
    \E i \in 1..Len(locals) : identifiers_equal(m, name, locals[i].name)])

\* The loop of declare_variable, from the newest local down, stopping at the
\* first local of an enclosing scope: TRUE iff it meets a local with the name.
declared_in_scope(m, name) ==
    Let([locals \in {current_compiler(m).locals} |->
    \E i \in 1..Len(locals) :
        /\ identifiers_equal(m, name, locals[i].name)
        /\ \A j \in i..Len(locals) :
               ~(/\ locals[j].depth # -1
                 /\ locals[j].depth < current_compiler(m).scope_depth)])

\* CompilerManager::declare_variable
declare_variable(m) ==
    IF current_compiler(m).scope_depth = 0 THEN m
    ELSE Let([name \in {m.parser.previous} |->
         add_local(IF declared_in_scope(m, name)
                   THEN error(m, "Already variable with this name in this scope.")
                   ELSE m,
                   name)])

\* CompilerManager::parse_variable: r is the returned constant index.
parse_variable(m, error_message) ==
    Let([m2 \in {declare_variable(consume(m, "Identifier", error_message))} |->
    IF current_compiler(m2).scope_depth > 0 THEN [m |-> m2, r |-> 0]
    ELSE identifier_constant(m2, m2.parser.previous)])

\* CompilerManager::mark_initialized
mark_initialized(m) ==
    IF current_compiler(m).scope_depth = 0 THEN m
    ELSE Let([c \in {current_compiler(m)} |->
         Let([i \in {Len(c.locals) - 1} |->
         with_current_compiler(m,
             [c EXCEPT !.locals = SetAt(@, i,
                           [At(c.locals, i) EXCEPT !.depth = c.scope_depth])])])])

\* CompilerManager::define_variable
define_variable(m, global) ==
    IF current_compiler(m).scope_depth > 0 THEN mark_initialized(m)
    ELSE emit_instruction(m, I1("OpDefineGlobal", global))

SyncTokens ==
    {"Class", "Fun", "Var", "For", "If", "While", "Print", "Return"}

\* The loop of CompilerManager::synchronize.
RECURSIVE synchronize_loop(_)
synchronize_loop(m) ==
    IF m.parser.current.token_type = "Eof" THEN m
    ELSE IF m.parser.previous.token_type = "Semicolon" THEN m
    ELSE IF m.parser.current.token_type \in SyncTokens THEN m
    ELSE synchronize_loop(advance(m))

\* synchronize as it would be if it skipped one token and returned.
synchronize_one_token(m) ==
    IF m.parser.current.token_type = "Eof"
    THEN [m EXCEPT !.parser.panic_mode = FALSE]
    ELSE advance([m EXCEPT !.parser.panic_mode = FALSE])

\* CompilerManager::synchronize
synchronize(m) == synchronize_loop([m EXCEPT !.parser.panic_mode = FALSE])

\* CompilerManager::init_compiler
init_compiler(m, function_type) ==
    Let([compiler \in {[NewCompiler(function_type) EXCEPT
            !.locals = <<Local([token_type |-> "Identifier",
                                start |-> 0, length |-> 0,
                                line |-> 0], 0)>>]} |->
    Let([m1 \in {[m EXCEPT !.compilers = Append(@, compiler), !.current = @ + 1]} |->
    IF function_type # "Script"
    THEN with_current_compiler(m1,
             [current_compiler(m1) EXCEPT
                 !.function.name = lexeme_to_string(m1, m1.parser.previous)])
    ELSE m1])])

\* CompilerManager::emit_jump: r is the offset of the emitted instruction.
emit_jump(m, instruction) ==
    Let([m1 \in {emit_instruction(m, instruction)} |->
    [m |-> m1, r |-> Len(current_chunk(m1).bytecode) - 1]])

\* patch_jump as it would be if it left the placeholder in the instruction.
patch_jump_forgotten(m, offset) == m

\* CompilerManager::patch_jump
patch_jump(m, offset) ==
    Let([chunk \in {current_chunk(m)} |->
    Let([jump \in {Len(chunk.bytecode) - offset - 1} |->
    Let([old \in {At(chunk.bytecode, offset)} |->
    with_current_chunk(m,
        [chunk EXCEPT !.bytecode = SetAt(@, offset,
            CASE old.op = "OpJump"        -> I1("OpJump", jump)
              [] old.op = "OpJumpIfFalse" -> I1("OpJumpIfFalse", jump))])])])])

\* CompilerManager::emit_loop
emit_loop(m, loop_start) ==
    Let([offset \in {Len(current_chunk(m).bytecode) - loop_start + 1} |->
    emit_instruction(m, I1("OpLoop", offset))])

DigitValue(c) ==
    CASE c = "0" -> 0 [] c = "1" -> 1 [] c = "2" -> 2 [] c = "3" -> 3
      [] c = "4" -> 4 [] c = "5" -> 5 [] c = "6" -> 6 [] c = "7" -> 7
      [] c = "8" -> 8 [] c = "9" -> 9

\* str::parse::<f64> on a Number lexeme (digits, optionally '.' and digits):
\* acc/scale after reading source[from .. to).
RECURSIVE parse_f64(_, _, _, _, _)
parse_f64(source, from, to, acc, scale) ==
    IF from >= to THEN F64(acc, IF scale = 0 THEN 1 ELSE scale)
    ELSE Let([c \in {Collect(source, from, from + 1)} |->
         IF c = "." THEN parse_f64(source, from + 1, to, acc, 1)
         ELSE parse_f64(source, from + 1, to, acc * 10 + DigitValue(c), scale * 10)])

\* CompilerManager::number
number(m) ==
    Let([t \in {m.parser.previous} |->
    emit_constant(m, Number(parse_f64(m.scanner.source, t.start,
                                      t.start + t.length, 0, 0)))])

\* CompilerManager::string
string(m) ==
    emit_constant(m, String(section_to_string(m, m.parser.previous.start + 1,
                                              m.parser.previous.length - 2)))

\* CompilerManager::literal
literal(m) ==
    Let([operator_type \in {m.parser.previous.token_type} |->
    CASE operator_type = "False" -> emit_instruction(m, I0("OpFalse"))
      [] operator_type = "Nil"   -> emit_instruction(m, I0("OpNil"))
      [] operator_type = "True"  -> emit_instruction(m, I0("OpTrue"))
      [] OTHER                   -> m])

\* resolve_local as it would be if it took the oldest local with the name.
resolve_local_oldest(m, name) ==
    Let([found \in {{i \in 0..(Len(current_compiler(m).locals) - 1) :
            identifiers_equal(m, At(current_compiler(m).locals, i).name,
                              name)}} |->
    IF found = {} THEN [m |-> m, r |-> -1]
    ELSE Let([i \in {CHOOSE i \in found : \A j \in found : i <= j} |->
         [m |-> IF At(current_compiler(m).locals, i).depth = -1
                THEN error(m, "Can't read local variable in its own initializer.")
                ELSE m,
          r |-> i]])])

\* resolve_local as it would be if it went on to the locals of the compiler
\* of the script when the current compiler has no local with the name.
resolve_local_enclosing(m, name) ==
    Let([found \in {{i \in 0..(Len(current_compiler(m).locals) - 1) :
            identifiers_equal(m, At(current_compiler(m).locals, i).name,
                              name)}} |->
    Let([outer \in {{i \in 0..(Len(At(m.compilers, 0).locals) - 1) :
            identifiers_equal(m, At(At(m.compilers, 0).locals, i).name,
                              name)}} |->
    IF found # {}
    THEN [m |-> m, r |-> CHOOSE i \in found : \A j \in found : j <= i]
    ELSE IF outer # {}
    THEN [m |-> m, r |-> CHOOSE i \in outer : \A j \in outer : j <= i]
    ELSE [m |-> m, r |-> -1]])])

\* resolve_local as it would be without the test of depth -1.
resolve_local_any_depth(m, name) ==
    Let([found \in {{i \in 0..(Len(current_compiler(m).locals) - 1) :
            identifiers_equal(m, At(current_compiler(m).locals, i).name,
                              name)}} |->
    IF found = {} THEN [m |-> m, r |-> -1]
    ELSE [m |-> m, r |-> CHOOSE i \in found : \A j \in found : j <= i]])

\* CompilerManager::resolve_local: the manager after any error report and the
\* returned index, that of the newest local with the name (-1 when none has).
resolve_local(m, name) ==
    Let([found \in {{i \in 0..(Len(current_compiler(m).locals) - 1) :
            identifiers_equal(m, At(current_compiler(m).locals, i).name,
                              name)}} |->
    IF found = {} THEN [m |-> m, r |-> -1]
    ELSE Let([i \in {CHOOSE i \in found : \A j \in found : j <= i} |->
         [m |-> IF At(current_compiler(m).locals, i).depth = -1
                THEN error(m, "Can't read local variable in its own initializer.")
                ELSE m,
          r |-> i]])])

RECURSIVE parse_precedence(_, _), infix_loop(_, _, _, _, _),
          parse_fn(_, _, _), declaration(_), statement(_),
          block_loop(_, _, _), function(_, _), params_loop(_, _, _),
          args_loop(_, _, _)

\* CompilerManager::expression
expression(m) == parse_precedence(m, PrecAssignment)

\* CompilerManager::grouping
grouping(m) ==
    Let([m1 \in {expression(m)} |->
    consume(m1, "RightParen", "Expect ')' after expression.")])

\* CompilerManager::unary
unary(m) ==
    Let([m1 \in {parse_precedence(m, PrecUnary)} |->
    Let([operator_type \in {m.parser.previous.token_type} |->
    CASE operator_type = "Bang"  -> emit_instruction(m1, I0("OpNot"))
      [] operator_type = "Minus" -> emit_instruction(m1, I0("OpNegate"))
      [] OTHER                   -> m1])])

\* binary as it would be if the right operand were parsed at the
\* operator's own precedence, which makes the operators right-associative.
binary_right_associative(m) ==
    Let([m1 \in {parse_precedence(m,
            rules(m.parser.previous.token_type).precedence)} |->
    Let([operator_type \in {m.parser.previous.token_type} |->
    CASE operator_type = "BangEqual" ->
            emit_instructions(m1, I0("OpEqual"), I0("OpNot"))
      [] operator_type = "EqualEqual" -> emit_instruction(m1, I0("OpEqual"))
      [] operator_type = "Greater" -> emit_instruction(m1, I0("OpGreater"))
      [] operator_type = "GreaterEqual" ->
            emit_instructions(m1, I0("OpLess"), I0("OpNot"))
      [] operator_type = "Less" -> emit_instruction(m1, I0("OpLess"))
      [] operator_type = "LessEqual" ->
            emit_instructions(m1, I0("OpGreater"), I0("OpNot"))
      [] operator_type = "Plus" -> emit_instruction(m1, I0("OpAdd"))
      [] operator_type = "Minus" -> emit_instruction(m1, I0("OpSubtract"))
      [] operator_type = "Star" -> emit_instruction(m1, I0("OpMultiply"))
      [] operator_type = "Slash" -> emit_instruction(m1, I0("OpDivide"))
      [] OTHER -> m1])])

\* CompilerManager::binary
binary(m) ==
    Let([m1 \in {parse_precedence(m,
            rules(m.parser.previous.token_type).precedence + 1)} |->
    Let([operator_type \in {m.parser.previous.token_type} |->
    CASE operator_type = "BangEqual" ->
            emit_instructions(m1, I0("OpEqual"), I0("OpNot"))
      [] operator_type = "EqualEqual" -> emit_instruction(m1, I0("OpEqual"))
      [] operator_type = "Greater" -> emit_instruction(m1, I0("OpGreater"))
      [] operator_type = "GreaterEqual" ->
            emit_instructions(m1, I0("OpLess"), I0("OpNot"))
      [] operator_type = "Less" -> emit_instruction(m1, I0("OpLess"))
      [] operator_type = "LessEqual" ->
            emit_instructions(m1, I0("OpGreater"), I0("OpNot"))
      [] operator_type = "Plus" -> emit_instruction(m1, I0("OpAdd"))
      [] operator_type = "Minus" -> emit_instruction(m1, I0("OpSubtract"))
      [] operator_type = "Star" -> emit_instruction(m1, I0("OpMultiply"))
      [] operator_type = "Slash" -> emit_instruction(m1, I0("OpDivide"))
      [] OTHER -> m1])])

\* CompilerManager::named_variable
named_variable(m, name, can_assign) ==
    Let([l \in {resolve_local(m, name)} |->
    Let([arg \in {IF l.r # -1 THEN l ELSE identifier_constant(l.m, name)} |->
    Let([e \in {IF can_assign THEN match_token(arg.m, "Equal")
        ELSE [m |-> arg.m, r |-> FALSE]} |->
    IF e.r
    THEN Let([m1 \in {expression(e.m)} |->
         emit_instruction(m1, IF l.r # -1 THEN I1("OpSetLocal", arg.r)
                              ELSE I1("OpSetGlobal", arg.r))])
    ELSE emit_instruction(e.m, IF l.r # -1 THEN I1("OpGetLocal", arg.r)
                               ELSE I1("OpGetGlobal", arg.r))])])])

\* variable as it would be if it took every `=` after a name for an
\* assignment, whatever the precedence it is parsed at.
variable_always_assignable(m, can_assign) ==
    named_variable(m, m.parser.previous, TRUE)

\* CompilerManager::variable
variable(m, can_assign) == named_variable(m, m.parser.previous, can_assign)

\* CompilerManager::argument_list: r is the returned arg_count.
argument_list(m) ==
    Let([a \in {args_loop([m |-> m, r |-> ~check(m, "RightParen"),
                           arg_count |-> 0], 0, TRUE)} |->
    [m |-> consume(a.m, "LeftBrace", "Expect ')' after arguments."),
     r |-> a.arg_count]])

\* The loop of argument_list: c = [m, r, arg_count], r telling whether another
\* argument follows.
args_loop(c, k, grow) ==
    CASE ~c.r -> c
      [] c.r /\ grow -> args_loop(args_loop(c, k, FALSE), k + 1, TRUE)
      [] c.r /\ ~grow /\ k > 0 ->
            args_loop(args_loop(c, k - 1, FALSE), k - 1, FALSE)
      [] OTHER ->
            Let([m1 \in {expression(c.m)} |->
            Let([e \in {match_token(IF c.arg_count = 255
                            THEN error(m1, "Can't have more than 255 arguments.")
                            ELSE m1,
                            "Comma")} |->
            [m |-> e.m, r |-> e.r, arg_count |-> c.arg_count + 1]])])

\* CompilerManager::call
call(m) ==
    Let([a \in {argument_list(m)} |->
    emit_instruction(a.m, I1("OpCall", a.r))])

\* and as it would be without the Pop of the left operand.
and_keeping_left(m) ==
    Let([end_jump \in {emit_jump(m, I1("OpJumpIfFalse", 65535))} |->
    Let([m1 \in {parse_precedence(end_jump.m, PrecAnd)} |->
    patch_jump(m1, end_jump.r)])])

\* CompilerManager::and
and(m) ==
    Let([end_jump \in {emit_jump(m, I1("OpJumpIfFalse", 65535))} |->
    Let([m1 \in {parse_precedence(emit_instruction(end_jump.m, I0("OpPop")),
                                  PrecAnd)} |->
    patch_jump(m1, end_jump.r)])])

\* CompilerManager::or
or(m) ==
    Let([else_jump \in {emit_jump(m, I1("OpJumpIfFalse", 65535))} |->
    Let([end_jump \in {emit_jump(else_jump.m, I1("OpJump", 65535))} |->
    Let([m1 \in {parse_precedence(
                     emit_instruction(patch_jump(end_jump.m, else_jump.r),
                                      I0("OpPop")),
                     PrecOr)} |->
    patch_jump(m1, end_jump.r)])])])

\* CompilerManager::parse_fn
parse_fn(m, fn, can_assign) ==
    CASE fn = "Call"     -> call(m)
      [] fn = "Grouping" -> grouping(m)
      [] fn = "Unary"    -> unary(m)
      [] fn = "Binary"   -> binary(m)
      [] fn = "Variable" -> variable(m, can_assign)
      [] fn = "String"   -> string(m)
      [] fn = "Number"   -> number(m)
      [] fn = "And"      -> and(m)
      [] fn = "Literal"  -> literal(m)
      [] fn = "Or"       -> or(m)
      [] fn = "None"     -> m

\* The infix loop of parse_precedence: c = [m, r], r telling whether the
\* current token binds at least as tightly as precedence.
infix_loop(c, precedence, can_assign, k, grow) ==
    CASE ~c.r -> c
      [] c.r /\ grow ->
            infix_loop(infix_loop(c, precedence, can_assign, k, FALSE),
                       precedence, can_assign, k + 1, TRUE)
      [] c.r /\ ~grow /\ k > 0 ->
            infix_loop(infix_loop(c, precedence, can_assign, k - 1, FALSE),
                       precedence, can_assign, k - 1, FALSE)
      [] OTHER ->
            Let([m1 \in {advance(c.m)} |->
            Let([m2 \in {parse_fn(m1, rules(m1.parser.previous.token_type).infix,
                                  can_assign)} |->
            [m |-> m2,
             r |-> precedence
                     <= rules(m2.parser.current.token_type).precedence]])])

\* CompilerManager::parse_precedence
parse_precedence(m, precedence) ==
    Let([m1 \in {advance(m)} |->
    IF rules(m1.parser.previous.token_type).prefix = "None"
    THEN error(m1, "Expect expression.")
    ELSE
    Let([m2 \in {parse_fn(m1, rules(m1.parser.previous.token_type).prefix,
                          precedence <= PrecAssignment)} |->
    Let([m3 \in {infix_loop(
            [m |-> m2,
             r |-> precedence <= rules(m2.parser.current.token_type).precedence],
            precedence, precedence <= PrecAssignment, 0, TRUE).m} |->
    IF precedence <= PrecAssignment
    THEN Let([e \in {match_token(m3, "Equal")} |->
         IF e.r THEN error(e.m, "Invalid assignment target.") ELSE e.m])
    ELSE m3])])])

\* CompilerManager::expression_statement
expression_statement(m) ==
    Let([m1 \in {expression(m)} |->
    emit_instruction(consume(m1, "Semicolon", "Expect ';' after expression."),
                     I0("OpPop"))])

\* CompilerManager::print_statement
print_statement(m) ==
    Let([m1 \in {expression(m)} |->
    emit_instruction(consume(m1, "Semicolon", "Expect ';' after value."),
                     I0("OpPrint"))])

\* CompilerManager::var_declaration
var_declaration(m) ==
    Let([global \in {parse_variable(m, "Expect variable name.")} |->
    Let([e \in {match_token(global.m, "Equal")} |->
    Let([m1 \in {IF e.r THEN expression(e.m)
                 ELSE emit_instruction(e.m, I0("OpNil"))} |->
    define_variable(consume(m1, "Semicolon",
                            "Expect ';' after variable declaration."),
                    global.r)])])])

\* CompilerManager::fun_declaration
fun_declaration(m) ==
    Let([global \in {parse_variable(m, "Expect function name.")} |->
    Let([m1 \in {function(mark_initialized(global.m), "Function")} |->
    define_variable(m1, global.r)])])

\* The loop of block: c = [m, r], r telling whether a declaration follows.
block_loop(c, k, grow) ==
    CASE ~c.r -> c
      [] c.r /\ grow -> block_loop(block_loop(c, k, FALSE), k + 1, TRUE)
      [] c.r /\ ~grow /\ k > 0 ->
            block_loop(block_loop(c, k - 1, FALSE), k - 1, FALSE)
      [] OTHER ->
            Let([m1 \in {declaration(c.m)} |->
            [m |-> m1, r |-> ~check(m1, "RightBrace") /\ ~check(m1, "Eof")]])

\* CompilerManager::block
block(m) ==
    Let([c \in {block_loop(
            [m |-> m, r |-> ~check(m, "RightBrace") /\ ~check(m, "Eof")],
            0, TRUE)} |->
    consume(c.m, "RightBrace", "Expect '}' after block.")])

\* The parameter loop of function: c = [m, r], r telling whether another
\* parameter follows.
params_loop(c, k, grow) ==
    CASE ~c.r -> c
      [] c.r /\ grow -> params_loop(params_loop(c, k, FALSE), k + 1, TRUE)
      [] c.r /\ ~grow /\ k > 0 ->
            params_loop(params_loop(c, k - 1, FALSE), k - 1, FALSE)
      [] OTHER ->
            Let([m1 \in {with_current_compiler(c.m,
                    [current_compiler(c.m) EXCEPT !.function.arity = @ + 1])} |->
            Let([constant \in {parse_variable(
                    IF current_compiler(m1).function.arity > 255
                    THEN error_at(m1, m1.parser.current,
                                  "Can't have more than 255 parameters.")
                    ELSE m1,
                    "Expect parameter name.")} |->
            match_token(define_variable(constant.m, constant.r), "Comma")])])

\* CompilerManager::function
function(m, function_type) ==
    Let([m3 \in {consume(begin_scope(init_compiler(m, function_type)),
                "LeftParen", "Expect '(' after function name.")} |->
    Let([c \in {params_loop([m |-> m3, r |-> ~check(m3, "RightParen")],
                            0, TRUE)} |->
    Let([m7 \in {block(consume(consume(c.m, "RightParen",
                                       "Expect ')' after parameters."),
                               "LeftBrace", "Expect ')' after parameters."))} |->
    Let([e \in {end(m7)} |->
    emit_constant(e.m, FunctionValue(e.r))])])])])

\* CompilerManager::if_statement
if_statement(m) ==
    Let([m2 \in {expression(consume(m, "LeftParen", "Expect '(' after 'if'."))} |->
    Let([then_jump \in {emit_jump(consume(m2, "RightParen",
                                          "Expect ')' after condition."),
                                  I1("OpJumpIfFalse", 65535))} |->
    Let([m4 \in {statement(emit_instruction(then_jump.m, I0("OpPop")))} |->
    Let([else_jump \in {emit_jump(m4, I1("OpJump", 65535))} |->
    Let([e \in {match_token(emit_instruction(patch_jump(else_jump.m, then_jump.r),
                                     I0("OpPop")),
                    "Else")} |->
    Let([m5 \in {IF e.r THEN statement(e.m) ELSE e.m} |->
    patch_jump(m5, else_jump.r)])])])])])])

\* while_statement as it would be without the Pop at the exit of the loop.
while_without_exit_pop(m) ==
    Let([m2 \in {expression(consume(m, "LeftParen",
                                    "Expect '(' after 'while'."))} |->
    Let([exit_jump \in {emit_jump(consume(m2, "RightParen",
                                          "Expect ')' after condition."),
                                  I1("OpJumpIfFalse", 65535))} |->
    Let([m4 \in {statement(emit_instruction(exit_jump.m, I0("OpPop")))} |->
    patch_jump(emit_loop(m4, Len(current_chunk(m).bytecode)), exit_jump.r)])])])

\* CompilerManager::while_statement
while_statement(m) ==
    Let([m2 \in {expression(consume(m, "LeftParen",
                                    "Expect '(' after 'while'."))} |->
    Let([exit_jump \in {emit_jump(consume(m2, "RightParen",
                                          "Expect ')' after condition."),
                                  I1("OpJumpIfFalse", 65535))} |->
    Let([m4 \in {statement(emit_instruction(exit_jump.m, I0("OpPop")))} |->
    emit_instruction(
        patch_jump(emit_loop(m4, Len(current_chunk(m).bytecode)), exit_jump.r),
        I0("OpPop"))])])])

\* for_statement, Left/Initializer clause.
for_initializer(m) ==
    CASE check(m, "Semicolon") -> match_token(m, "Semicolon").m
      [] check(m, "Var") -> var_declaration(match_token(m, "Var").m)
      [] OTHER -> expression_statement(m)

\* for_statement, Middle/Test clause: r is exit_jump.
for_condition(m) ==
    IF check(m, "Semicolon")
    THEN [m |-> match_token(m, "Semicolon").m, r |-> -1]
    ELSE Let([m1 \in {expression(m)} |->
         Let([exit_jump \in {emit_jump(consume(m1, "Semicolon",
                                       "Expect ';' after loop condition."),
                               I1("OpJumpIfFalse", 65535))} |->
         [m |-> emit_instruction(exit_jump.m, I0("OpPop")),
          r |-> exit_jump.r]])])

\* for_statement, Right/Increment clause: r is loop_start.
for_increment(m, loop_start) ==
    IF check(m, "RightParen")
    THEN [m |-> match_token(m, "RightParen").m, r |-> loop_start]
    ELSE Let([body_jump \in {emit_jump(m, I1("OpJump", 4095))} |->
         Let([m1 \in {expression(body_jump.m)} |->
         [m |-> patch_jump(
                    emit_loop(
                        consume(emit_instruction(m1, I0("OpPop")),
                                "RightParen", "Expect ')' after for clauses."),
                        loop_start),
                    body_jump.r),
          r |-> Len(current_chunk(body_jump.m).bytecode)]])])

\* CompilerManager::for_statement
for_statement(m) ==
    Let([m3 \in {for_initializer(consume(begin_scope(m), "LeftParen",
                                "Expect '(' after 'for'."))} |->
    Let([exit_jump \in {for_condition(m3)} |->
    Let([loop_start \in {for_increment(exit_jump.m,
                                       Len(current_chunk(m3).bytecode))} |->
    Let([m6 \in {statement(loop_start.m)} |->
    Let([m7 \in {emit_loop(m6, loop_start.r)} |->
    end_scope(IF exit_jump.r # -1
              THEN emit_instruction(patch_jump(m7, exit_jump.r), I0("OpPop"))
              ELSE m7)])])])])])

\* CompilerManager::statement
statement(m) ==
    CASE check(m, "Print") -> print_statement(match_token(m, "Print").m)
      [] check(m, "For") -> for_statement(match_token(m, "For").m)
      [] check(m, "If") -> if_statement(match_token(m, "If").m)
      [] check(m, "While") -> while_statement(match_token(m, "While").m)
      [] check(m, "LeftBrace") ->
            Let([m1 \in {block(begin_scope(match_token(m, "LeftBrace").m))} |->
            end_scope(m1)])
      [] OTHER -> expression_statement(m)

\* CompilerManager::declaration
declaration(m) ==
    Let([m1 \in {CASE check(m, "Fun") ->
                        fun_declaration(match_token(m, "Fun").m)
                   [] check(m, "Var") ->
                        var_declaration(match_token(m, "Var").m)
                   [] OTHER -> statement(m)} |->
    IF m1.parser.panic_mode THEN synchronize(m1) ELSE m1])

\* The top-level loop of compile: c = [m, r], r telling whether a declaration
\* follows.
RECURSIVE compile_loop(_, _, _)
compile_loop(c, k, grow) ==
    CASE ~c.r -> c
      [] c.r /\ grow -> compile_loop(compile_loop(c, k, FALSE), k + 1, TRUE)
      [] c.r /\ ~grow /\ k > 0 ->
            compile_loop(compile_loop(c, k - 1, FALSE), k - 1, FALSE)
      [] OTHER ->
            Let([m1 \in {declaration(c.m)} |->
            [m |-> m1, r |-> ~check(m1, "Eof")]])

\* The CompilerManager that compile builds for a source.
CompilerManager(source) ==
    [current   |-> -1,
     compilers |-> <<>>,
     scanner   |-> ScannerInit(source),
     parser    |-> ParserInit,
     stderr    |-> <<>>]

\* CompilerManager::compile: Ok(function) or Err(error_message).
compile(source) ==
    Let([m1 \in {advance(init_compiler(CompilerManager(source),
                                       "Script"))} |->
    Let([c \in {compile_loop([m |-> m1, r |-> ~check(m1, "Eof")], 0, TRUE)} |->
    Let([e \in {end(match_token(c.m, "Eof").m)} |->
    IF e.m.parser.had_error
    THEN [ok |-> FALSE, error_message |-> e.m.parser.error_message,
          stderr |-> e.m.stderr]
    ELSE [ok |-> TRUE, function |-> e.r]])])])

(***************************************************************************)
(* vm/vm.rs, vm/call_frame.rs                                              *)
(***************************************************************************)
FRAMES_MAX == 64

STACK_MAX == 256 * FRAMES_MAX

\* How many interpret calls one VM gets.
MaxInterprets == 2

\* The declarations `var xaa;var xab;...` numbered lo..hi.
RECURSIVE var_decls(_, _)
var_decls(lo, hi) ==
    IF lo > hi THEN ""
    ELSE IF lo = hi
    THEN "var x" \o Collect("abcdefghijklmnop", lo \div 16, (lo \div 16) + 1)
                 \o Collect("abcdefghijklmnop", lo % 16, (lo % 16) + 1) \o ";"
    ELSE var_decls(lo, (lo + hi) \div 2) \o var_decls((lo + hi) \div 2 + 1, hi)

\* The parameters `xaa,xab,...` numbered lo..hi.
RECURSIVE param_list(_, _)
param_list(lo, hi) ==
    IF lo > hi THEN ""
    ELSE IF lo = hi
    THEN "x" \o Collect("abcdefghijklmnop", lo \div 16, (lo \div 16) + 1)
             \o Collect("abcdefghijklmnop", lo % 16, (lo % 16) + 1)
    ELSE param_list(lo, (lo + hi) \div 2) \o ","
         \o param_list((lo + hi) \div 2 + 1, hi)

\* The sources the driver (run_file, repl) hands to interpret, by name.
\* deep: a function with U8_MAX - 2 locals and a block with U8_MAX - 1, the
\* most that add_local takes beside the slots in use, each calling the
\* function with its locals alive.
Sources ==
    [print            |-> "print 1;",
     tour             |-> "var x; x = 2; { var a = true; a = x; print a; } "
                          \o "if (x == 2 and !false or nil) print -x; else print 1; "
                          \o "while (x < 3) x = x + 1; fun g(a) {} "
                          \o "print g(\"s\" + \"t\" {; print clock(1 {;",
     undefined_get    |-> "print y;",
     undefined_set    |-> "y = 1;",
     negate_nil       |-> "-nil;",
     call_nil         |-> "nil(1 {;",
     missing_argument |-> "fun f(a, b) {} f(1 {;",
     extra_argument   |-> "fun f(a) {} f(1, 2 {;",
     recursion        |-> "fun f(a) { f(a {; } f(1 {;",
     add_number_string |-> "1 + \"a\";",
     add_string_number |-> "\"a\" + 1;",
     subtract_nil     |-> "1 - nil;",
     multiply_nil     |-> "nil * 1;",
     divide_nil       |-> "1 / nil;",
     greater_nil      |-> "1 > nil;",
     less_nil         |-> "nil < 1;",
     add_in_function  |-> "var z = 1; fun f(a) { a + nil; } f(1 {;",
     call_paren       |-> "fun f() {} print f();",
     return           |-> "fun f(a) { return a; } print f(1 {;",
     constants_257    |-> var_decls(0, U8_MAX) \o "var xaa;",
     parameters_255   |-> "fun f(" \o param_list(0, U8_MAX - 1) \o ") {}",
     parameters_256   |-> "fun f(" \o param_list(0, U8_MAX) \o ") {}",
     parameters_254   |-> "fun f(" \o param_list(0, U8_MAX - 2) \o ") {}",
     precedence       |-> "print 1 - 2 - 3; print 1 + 2 * 3; print 8 / 4 / 2; "
                          \o "print 2 * 3 + 1; print 1 < 2 == true; "
                          \o "print 1 + 2 < 4; print -1 - 2; print 1 - (2 - 3); "
                          \o "print true == 2 > 1; print -2 * 3 - -1;",
     grouping         |-> "print (1 + 2) * ((3));",
     assign_group     |-> "var a; (a) = 1;",
     assign_sum       |-> "var a; var b; a + b = 1;",
     assign_not       |-> "var a; !a = 1;",
     assign           |-> "var a; a = 1; { var b; b = a = 2; print b; } print a;",
     own_initializer  |-> "{ var a = a; }",
     own_initializer_in_global |-> "var a = 1; { var a = a; }",
     own_initializer_in_local  |-> "{ var a = 1; { var a = a; } }",
     global_initializer |-> "var a = 1; var a = a + 1; print a;",
     redeclare_in_block |-> "{ var a; var a; }",
     redeclare_parameter |-> "fun f(a) { var a; }",
     declare_nested   |-> "var a = 1; { var a = 2; { var a = 3; print a; } "
                          \o "print a; } print a; fun f(a) { { var a; } }",
     redefine         |-> "var a = \"1\"; var a; print a; "
                          \o "var a = \"1\"; var a = \"2\"; print a;",
     shadow           |-> "var a = \"global\"; { var a = \"shadow\"; print a; } "
                          \o "print a; { var a = \"outer\"; { var a = \"inner\"; "
                          \o "print a; } print a; { var b = \"b\"; print a; } } "
                          \o "print a;",
     resolve_in_function |-> "var a = \"global\"; { var a = \"shadow\"; "
                          \o "fun f(x) { print a; } f(1 {; }",
     logical          |-> "var x = 0; print nil and (x = 1); print x; "
                          \o "print 1 and (x = 2); print x; "
                          \o "print false or (x = 3); print x; "
                          \o "print true or (x = 4); print x;",
     equality         |-> "print nil == nil; print 1 == 1; print 1 == 2; "
                          \o "print \"a\" == \"a\"; print true == false; "
                          \o "print 1 == \"1\"; print nil == false; "
                          \o "print clock == clock; fun f(a) {} print f == f;",
     print_then_fail  |-> "print 1; print 2; -nil;",
     body_not_block   |-> "fun f() 123; }",
     body_must_be_block |-> "fun f() 123;",
     missing_comma_in_parameters |-> "fun foo(a, b c, d, e, f) {}",
     local_recursion  |-> "{ fun fib(n) { if (n < 2) return n; "
                          \o "return fib(n - 1) + fib(n - 2); } print fib(8); }",
     local_countdown  |-> "{ fun f(n) { print n; if (n > 0) f(n - 1 {; } f(2 {; }",
     set_in_function  |-> "{ var a = 1; fun f(x) { a = 2; } f(1 {; }",
     unterminated     |-> "\"this string has no close quote\n",
     unexpected_character |-> "foo(a | b);",
     scan_errors      |-> "var @ a; print | 1 # 2; \"abc",
     associativity    |-> "var a = \"a\"; var b = \"b\"; var c = \"c\"; "
                          \o "a = b = c; print a; print b; print c;",
     associativity_local |-> "{ var a = \"a\"; var b = \"b\"; var c = \"c\"; "
                          \o "a = b = c; print a; print b; print c; }",
     two_functions    |-> "fun f(a) {} fun g(b, c) {}",
     nested_functions |-> "fun f(a) { fun g(b, c) {} }",
     clock_then_fail  |-> "print clock(1 {; -nil;",
     sibling_parameters |-> "fun f(a) { print a; } "
                          \o "fun g(b, c) { print b; print c; } g(1, 2 {;",
     error_after_multiline |-> "var a = \"1\n2\n\";\n\nerr;",
     error_in_function |-> "fun f(a) {\n  print a;\n  -nil;\n}\nf(1 {;",
     set_parameter    |-> "fun f(x) { x = x + 1; print x; } f(1 {;",
     scopes           |-> "{ var a = 1; { var b = 2; var c = 3; print b; } "
                          \o "{ fun f(x) { var y; { var z; } } "
                          \o "for (var i = 0; i < 1; i = i + 1) { var j; } } "
                          \o "var d; }",
     open_blocks      |-> "{ var a; { var b = ; var c;",
     statements       |-> "var x = 0; print x; x; if (x == 0) print 1; "
                          \o "if (x == 1) print 2; else print 3; "
                          \o "if (x == 0) print 4; else print 5; "
                          \o "while (x < 2) { if (x == 1) print x; x = x + 1; } "
                          \o "for (var i = 0; i < 2; i = i + 1) print i; "
                          \o "for (; x < 3;) x = x + 1; "
                          \o "{ var a = 1; { var b = a; print b; } } print x;",
     deep             |-> "var x; x = 2; { var a = true; a = x; print a; } "
                          \o "if (x == 2 and !false or nil) print -x; else print 1; "
                          \o "while (x < 3) x = x + 1; "
                          \o "fun f(a) {" \o var_decls(1, U8_MAX - 2)
                          \o "nil == f(a {; } "
                          \o "{" \o var_decls(1, U8_MAX - 1)
                          \o "nil == f(nil {; }"]

\* What clock_native may read from the system clock (seconds).
ClockReadings == {F64(1, 1), F64(2, 1)}

\* CompilerManager::compile of every source, computed once.
Compiled ==
    {[source |-> n, result |-> compile(Sources[n])] : n \in DOMAIN Sources}

\* What compile returned for the source of that name; heap is Compiled, which
\* the operators of the VM take as an argument or as a field of the VM.
compiled(heap, n) == (CHOOSE p \in heap : p.source = n).result

\* An Rc<Function> of the VM points to a function the compiler built: the
\* script function of a source (path <<>>) or, along a path of constant
\* indices, a function constant of its chunk.
Rc(n, path) == [source |-> n, path |-> path]

RECURSIVE function_at(_, _)
function_at(func, path) ==
    IF path = <<>> THEN func
    ELSE function_at(read_constant(func.chunk, Head(path)).f, Tail(path))

\* The Function an Rc<Function> points to.
deref(heap, rc) == function_at(compiled(heap, rc.source).function, rc.path)

CallFrame(func, ip, stack_index) ==
    [function |-> func, ip |-> ip, stack_index |-> stack_index]

\* CallFrame::new, whose function is Rc::new(Function::new()).
NewCallFrame == CallFrame(Rc("", <<>>), 0, 0)

\* The VM struct as a record, with the heap its Rc<Function>s point into;
\* panic is set once an operation has panicked.
VM(heap) ==
    [heap |-> heap,
     frames |-> frames, stack |-> stack, stack_top |-> stack_top,
     globals |-> globals, printed_values |-> printed_values,
     latest_error_message |-> latest_error_message,
     error_trace |-> error_trace, panic |-> FALSE]

Panic(v) == [v EXCEPT !.panic = TRUE]

\* stack[i]: VM::new fills the array with Nil, and the variable keeps the
\* cells that hold another value.
StackGet(s, i) == IF i \in DOMAIN s THEN s[i] ELSE Nil

StackSet(s, i, value) ==
    IF value.t = "Nil" THEN [k \in DOMAIN s \ {i} |-> s[k]]
    ELSE (i :> value) @@ [k \in DOMAIN s \ {i} |-> s[k]]

\* VM::push_to_stack
push_to_stack(v, value) ==
    IF v.panic THEN v
    ELSE IF v.stack_top >= STACK_MAX THEN Panic(v)
    ELSE [v EXCEPT !.stack = StackSet(@, v.stack_top, value),
                   !.stack_top = @ + 1]

\* VM::pop_from_stack: the VM after the pop (take leaves Nil in the cell).
pop_from_stack(v) ==
    IF v.panic THEN v
    ELSE IF v.stack_top = 0 THEN Panic(v)
    ELSE [v EXCEPT !.stack_top = @ - 1,
                   !.stack = StackSet(@, v.stack_top - 1, Nil)]

\* The value pop_from_stack returns.
popped(v) == StackGet(v.stack, v.stack_top - 1)

\* reset_stack as it would be if it cleared the printed values too.
reset_stack_and_printed(v) ==
    [v EXCEPT !.stack_top = 0, !.frames = <<>>, !.printed_values = <<>>]

\* VM::reset_stack
reset_stack(v) == [v EXCEPT !.stack_top = 0, !.frames = <<>>]

\* The stack trace of runtime_error: the frames newest to oldest.
trace_lines(heap, fs) ==
    [j \in 1..Len(fs) |->
        [line |-> At(deref(heap, fs[Len(fs) + 1 - j].function).chunk.lines,
                     fs[Len(fs) + 1 - j].ip),
         name |-> deref(heap, fs[Len(fs) + 1 - j].function).name]]

\* VM::runtime_error
runtime_error(v, message) ==
    IF v.panic THEN v
    ELSE Let([v1 \in {[v EXCEPT !.latest_error_message = message]} |->
         IF \E i \in 1..Len(v1.frames) :
                v1.frames[i].ip
                    >= Len(deref(v.heap, v1.frames[i].function).chunk.lines)
         THEN Panic(v1)
         ELSE reset_stack([v1 EXCEPT !.error_trace =
                               trace_lines(v.heap, v1.frames)])])

Digit(d) ==
    CASE d = 0 -> "0" [] d = 1 -> "1" [] d = 2 -> "2" [] d = 3 -> "3"
      [] d = 4 -> "4" [] d = 5 -> "5" [] d = 6 -> "6" [] d = 7 -> "7"
      [] d = 8 -> "8" [] d = 9 -> "9"

\* Display of an integer ({} in format!).
RECURSIVE Decimal(_)
Decimal(n) ==
    IF n < 0 THEN "-" \o Decimal(-n)
    ELSE IF n < 10 THEN Digit(n)
    ELSE Decimal(n \div 10) \o Digit(n % 10)

\* call as it would be without the comparison of arg_count to the arity.
call_any_arity(v, func, arg_count, current_frame_ip) ==
    IF v.panic THEN [vm |-> v, ok |-> FALSE]
    ELSE IF Len(v.frames) = FRAMES_MAX
    THEN [vm |-> runtime_error(v, "Stack overflow."), ok |-> FALSE]
    ELSE IF v.stack_top < 1 + arg_count THEN [vm |-> Panic(v), ok |-> FALSE]
    ELSE [vm |-> [v EXCEPT !.frames =
                      Append(IF @ # <<>>
                             THEN [@ EXCEPT ![Len(@)].ip = current_frame_ip]
                             ELSE @,
                             CallFrame(func, 0, v.stack_top - 1 - arg_count))],
          ok |-> TRUE]

\* call as it would be without the limit on the number of frames.
call_any_depth(v, func, arg_count, current_frame_ip) ==
    IF v.panic THEN [vm |-> v, ok |-> FALSE]
    ELSE IF arg_count # deref(v.heap, func).arity
    THEN [vm |-> runtime_error(v, "Expected "
                                  \o Decimal(deref(v.heap, func).arity)
                                  \o " arguments but got "
                                  \o Decimal(arg_count) \o "."),
          ok |-> FALSE]
    ELSE IF v.stack_top < 1 + arg_count THEN [vm |-> Panic(v), ok |-> FALSE]
    ELSE [vm |-> [v EXCEPT !.frames =
                      Append(IF @ # <<>>
                             THEN [@ EXCEPT ![Len(@)].ip = current_frame_ip]
                             ELSE @,
                             CallFrame(func, 0, v.stack_top - 1 - arg_count))],
          ok |-> TRUE]

\* VM::call as it would be if the frame began above the arguments.
vm_call_above_arguments(v, func, arg_count, current_frame_ip) ==
    IF v.panic \/ arg_count # deref(v.heap, func).arity
          \/ Len(v.frames) = FRAMES_MAX \/ v.stack_top < 1 + arg_count
    THEN [vm |-> Panic(v), ok |-> FALSE]
    ELSE [vm |-> [v EXCEPT !.frames =
                      Append(@, CallFrame(func, 0, v.stack_top - 1))],
          ok |-> TRUE]

\* VM::call: the VM after the call and whether it returned Ok.
vm_call(v, func, arg_count, current_frame_ip) ==
    IF v.panic THEN [vm |-> v, ok |-> FALSE]
    ELSE IF arg_count # deref(v.heap, func).arity
    THEN [vm |-> runtime_error(v, "Expected "
                                  \o Decimal(deref(v.heap, func).arity)
                                  \o " arguments but got "
                                  \o Decimal(arg_count) \o "."),
          ok |-> FALSE]
    ELSE IF Len(v.frames) = FRAMES_MAX
    THEN [vm |-> runtime_error(v, "Stack overflow."), ok |-> FALSE]
    ELSE IF v.stack_top < 1 + arg_count THEN [vm |-> Panic(v), ok |-> FALSE]
    ELSE [vm |-> [v EXCEPT !.frames =
                      Append(IF @ # <<>>
                             THEN [@ EXCEPT ![Len(@)].ip = current_frame_ip]
                             ELSE @,
                             CallFrame(func, 0, v.stack_top - 1 - arg_count))],
          ok |-> TRUE]

\* VM::define_native
define_native(g, name, func) ==
    (name :> NativeFunctionValue([arity |-> 0, name |-> name,
                                  function |-> func])) @@ g

\* HashMap::insert
insert(g, name, value) == (name :> value) @@ g

(***************************************************************************)
(* One step of VM::run.  An outcome is the VM and the local frame after    *)
(* the instruction, and how the loop goes on: "continue", or the value     *)
(* run returns ("Ok", "RuntimeError"), or "panic".                         *)
(***************************************************************************)
Outcome(v, f, ret) ==
    [vm |-> v, frame |-> f, ret |-> IF v.panic THEN "panic" ELSE ret]

Continue(v, f) == Outcome(v, f, "continue")

\* `chunk.read_code(frame.ip)`
Instr(heap) == read_code(deref(heap, frame.function).chunk, frame.ip)

\* `frame.ip += 1`
Fetched == [frame EXCEPT !.ip = @ + 1]

\* Instruction::OpCall
call_outcome(v, f, arg_count, now) ==
    IF v.stack_top < 1 + arg_count THEN Outcome(Panic(v), f, "panic")
    ELSE Let([val \in {StackGet(v.stack, v.stack_top - 1 - arg_count)} |->
         CASE val.t = "Function" ->
                Let([c \in {vm_call(v, val.f, arg_count, f.ip)} |->
                IF c.ok THEN Continue(c.vm, Last(c.vm.frames))
                ELSE Outcome(c.vm, f, "RuntimeError")])
           [] val.t = "NativeFunction" ->
                Continue(push_to_stack(
                             [v EXCEPT !.stack_top = @ - (arg_count + 1)],
                             Number(now)), f)
           [] OTHER ->
                Outcome(runtime_error(v, "Can only call functions and classes."),
                        f, "RuntimeError")])

\* Instruction::OpNot
not_outcome(v, f) ==
    Continue(push_to_stack(pop_from_stack(v), Boolean(is_falsey(popped(v)))), f)

\* Instruction::OpNegate
negate_outcome(v, f) ==
    Let([v1 \in {pop_from_stack(v)} |->
    IF v1.panic THEN Outcome(v1, f, "panic")
    ELSE IF popped(v).t = "Number"
    THEN Continue(push_to_stack(v1, Number(F64Neg(popped(v).n))), f)
    ELSE Outcome(runtime_error(v1, "Operand must be a number."), f,
                 "RuntimeError")])

\* Instruction::OpJump
jump_outcome(v, f, offset) == Continue(v, [f EXCEPT !.ip = @ + offset])

\* Instruction::OpJumpIfFalse
jump_if_false_outcome(v, f, offset) ==
    Let([v1 \in {pop_from_stack(v)} |->
    IF v1.panic THEN Outcome(v1, f, "panic")
    ELSE Continue(push_to_stack(v1, popped(v)),
                  IF is_falsey(popped(v)) THEN [f EXCEPT !.ip = @ + offset]
                  ELSE f)])

\* Instruction::OpLoop
loop_outcome(v, f, offset) ==
    IF f.ip < offset THEN Outcome(Panic(v), f, "panic")
    ELSE Continue(v, [f EXCEPT !.ip = @ - offset])

\* Instruction::OpGetLocal
get_local_outcome(v, f, frame_index) ==
    Let([idx \in {f.stack_index + frame_index} |->
    IF idx >= STACK_MAX THEN Outcome(Panic(v), f, "panic")
    ELSE Continue(push_to_stack(v, StackGet(v.stack, idx)), f)])

\* SetLocal as it would be if it popped the value it stores.
set_local_popping(v, f, frame_index) ==
    Let([idx \in {f.stack_index + frame_index} |->
    IF v.stack_top = 0 \/ idx >= STACK_MAX THEN Outcome(Panic(v), f, "panic")
    ELSE Continue(pop_from_stack(
                      [v EXCEPT !.stack =
                          StackSet(@, idx, StackGet(v.stack, v.stack_top - 1))]),
                  f)])

\* Instruction::OpSetLocal
set_local_outcome(v, f, frame_index) ==
    Let([idx \in {f.stack_index + frame_index} |->
    IF v.stack_top = 0 \/ idx >= STACK_MAX THEN Outcome(Panic(v), f, "panic")
    ELSE Continue([v EXCEPT !.stack =
                       StackSet(@, idx, StackGet(v.stack, v.stack_top - 1))], f)])

\* Instruction::OpGetGlobal
get_global_outcome(v, f, index) ==
    Let([name \in {read_constant(deref(v.heap, f.function).chunk, index)} |->
    IF name.t = "String"
    THEN (IF name.s \notin DOMAIN v.globals
          THEN Outcome(runtime_error(v, "Undefined variable '" \o name.s \o "'."),
                       f, "RuntimeError")
          ELSE Continue(push_to_stack(v, v.globals[name.s]), f))
    ELSE Outcome(v, f, "RuntimeError")])

\* SetGlobal as it would be if assigning to a name that is no global
\* defined it.
set_global_defining(v, f, index) ==
    Let([name \in {read_constant(deref(v.heap, f.function).chunk, index)} |->
    IF name.t = "String"
    THEN (IF v.stack_top = 0 THEN Outcome(Panic(v), f, "panic")
          ELSE Continue([v EXCEPT !.globals =
                             insert(@, name.s,
                                    StackGet(v.stack, v.stack_top - 1))], f))
    ELSE Outcome(v, f, "RuntimeError")])

\* Instruction::OpSetGlobal
set_global_outcome(v, f, index) ==
    Let([name \in {read_constant(deref(v.heap, f.function).chunk, index)} |->
    IF name.t = "String"
    THEN (IF name.s \notin DOMAIN v.globals
          THEN Outcome(runtime_error(v, "Undefined variable '" \o name.s \o "'."),
                       f, "RuntimeError")
          ELSE IF v.stack_top = 0 THEN Outcome(Panic(v), f, "panic")
          ELSE Continue([v EXCEPT !.globals =
                             insert(@, name.s,
                                    StackGet(v.stack, v.stack_top - 1))], f))
    ELSE Outcome(v, f, "RuntimeError")])

\* DefineGlobal as it would be if a global that exists kept its value.
define_global_once(v, f, index) ==
    Let([name \in {read_constant(deref(v.heap, f.function).chunk, index)} |->
    IF name.t = "String"
    THEN Let([v1 \in {pop_from_stack(v)} |->
         IF v1.panic THEN Outcome(v1, f, "panic")
         ELSE IF name.s \in DOMAIN v.globals THEN Continue(v1, f)
         ELSE Continue([v1 EXCEPT !.globals = insert(@, name.s, popped(v))], f)])
    ELSE Outcome(v, f, "RuntimeError")])

\* Instruction::OpDefineGlobal
define_global_outcome(v, f, index) ==
    Let([name \in {read_constant(deref(v.heap, f.function).chunk, index)} |->
    IF name.t = "String"
    THEN Let([v1 \in {pop_from_stack(v)} |->
         IF v1.panic THEN Outcome(v1, f, "panic")
         ELSE Continue([v1 EXCEPT !.globals = insert(@, name.s, popped(v))], f)])
    ELSE Outcome(v, f, "RuntimeError")])

\* Instruction::OpEqual
equal_outcome(v, f) ==
    Let([v1 \in {pop_from_stack(v)} |->
    Let([v2 \in {pop_from_stack(v1)} |->
    IF v2.panic THEN Outcome(v2, f, "panic")
    ELSE Continue(push_to_stack(v2, Boolean(equals(popped(v1), popped(v)))),
                  f)])])

\* Instruction::OpAdd
add_outcome(v, f) ==
    Let([operand_2 \in {popped(v)} |->
    Let([v1 \in {pop_from_stack(v)} |->
    Let([operand_1 \in {popped(v1)} |->
    Let([v2 \in {pop_from_stack(v1)} |->
    IF v2.panic THEN Outcome(v2, f, "panic")
    ELSE
    Let([r \in {IF is_string(operand_1)
        THEN concatenate_strings(operand_1, operand_2)
        ELSE binary_arithmetic_op("OpAdd", operand_1, operand_2)} |->
    IF r.ok THEN Continue(push_to_stack(v2, r.v), f)
    ELSE Outcome(v2, f, "RuntimeError")])])])])])

BinaryNumberOps ==
    {"OpSubtract", "OpMultiply", "OpDivide", "OpGreater", "OpLess"}

\* Instruction::OpSubtract | OpMultiply | OpDivide | OpGreater | OpLess
binary_number_outcome(v, f, op) ==
    Let([operand_2 \in {popped(v)} |->
    Let([v1 \in {pop_from_stack(v)} |->
    Let([operand_1 \in {popped(v1)} |->
    Let([v2 \in {pop_from_stack(v1)} |->
    IF v2.panic THEN Outcome(v2, f, "panic")
    ELSE
    Let([r \in {IF op \in {"OpGreater", "OpLess"}
        THEN binary_boolean_op(op, operand_1, operand_2)
        ELSE binary_arithmetic_op(op, operand_1, operand_2)} |->
    IF r.ok THEN Continue(push_to_stack(v2, r.v), f)
    ELSE Outcome(v2, f, "RuntimeError")])])])])])

\* Instruction::OpConstant: the clone of a function constant shares its Rc.
constant_outcome(v, f, idx) ==
    Let([constant \in {read_constant(deref(v.heap, f.function).chunk, idx)} |->
    Continue(push_to_stack(v,
                 IF constant.t = "Function"
                 THEN FunctionValue(Rc(f.function.source,
                                       Append(f.function.path, idx)))
                 ELSE constant), f)])

\* Instruction::OpPrint
print_outcome(v, f) ==
    Let([v1 \in {pop_from_stack(v)} |->
    IF v1.panic THEN Outcome(v1, f, "panic")
    ELSE Continue([v1 EXCEPT !.printed_values = Append(@, popped(v))], f)])

\* Instruction::OpReturn
return_outcome(v, f) ==
    Let([return_val \in {popped(v)} |->
    Let([v1 \in {pop_from_stack(v)} |->
    IF v1.panic THEN Outcome(v1, f, "panic")
    ELSE
    Let([v2 \in {[v1 EXCEPT !.frames = IF @ = <<>> THEN @ ELSE Front(@)]} |->
    IF v2.frames = <<>> THEN Outcome(pop_from_stack(v2), f, "Ok")
    ELSE Continue(push_to_stack([v2 EXCEPT !.stack_top = f.stack_index],
                                return_val),
                  Last(v2.frames))])])])

\* The VM fields and the local frame after a step, and where control is.
Apply(o) ==
    /\ frames' = o.vm.frames
    /\ stack' = o.vm.stack
    /\ stack_top' = o.vm.stack_top
    /\ globals' = o.vm.globals
    /\ printed_values' = o.vm.printed_values
    /\ latest_error_message' = o.vm.latest_error_message
    /\ error_trace' = o.vm.error_trace
    /\ frame' = o.frame
    /\ status' = CASE o.ret = "continue" -> "running"
                   [] o.ret = "panic"    -> "panicked"
                   [] OTHER              -> "idle"

\* The state after one instruction of run.
Finish(o) ==
    /\ Apply(o)
    /\ result' = IF o.ret \in {"Ok", "RuntimeError"} THEN o.ret ELSE result
    /\ UNCHANGED <<program, interprets, programs, manager, twin>>

Running(heap, op) == status = "running" /\ Instr(heap).op = op

\* VM::new
NewVM ==
    /\ frames = <<>>
    /\ stack = <<>>
    /\ stack_top = 0
    /\ globals = define_native(<<>>, "clock", "clock_native")
    /\ printed_values = <<>>
    /\ latest_error_message = ""
    /\ error_trace = <<>>
    /\ frame = NewCallFrame
    /\ status = "idle"
    /\ result = "None"
    /\ program = ""
    /\ interprets = 0

\* No source is being parsed beside the interpret calls of the VM.
NoManager == manager = CompilerManager("")

\* No other VM has run.
NoTwin ==
    twin = [status |-> "fresh", result |-> "None", printed_values |-> <<>>,
            latest_error_message |-> ""]

\* The sources of a session on calls and operators.
CallSources ==
    {"print", "tour", "undefined_get", "undefined_set", "negate_nil",
     "call_nil", "missing_argument", "extra_argument", "recursion",
     "add_number_string", "add_string_number", "subtract_nil",
     "multiply_nil", "divide_nil", "greater_nil", "less_nil",
     "add_in_function", "call_paren", "return", "print_then_fail",
     "set_parameter", "error_after_multiline", "error_in_function"}

Init == NewVM /\ NoManager /\ NoTwin /\ programs = CallSources

InitDeep == NewVM /\ NoManager /\ NoTwin /\ programs = {"deep", "tour", "constants_257"}

\* The sources of a session on declarations, scopes and operators.
LanguageSources ==
    {"tour", "parameters_254", "parameters_255", "parameters_256",
     "precedence", "grouping",
     "assign_group", "assign_sum", "assign_not", "assign",
     "own_initializer", "own_initializer_in_global",
     "own_initializer_in_local", "global_initializer",
     "redeclare_in_block", "redeclare_parameter", "declare_nested",
     "redefine", "shadow", "resolve_in_function", "logical",
     "equality", "body_not_block", "body_must_be_block",
     "missing_comma_in_parameters", "local_recursion", "local_countdown",
     "set_in_function", "associativity", "associativity_local"}

InitLanguage == NewVM /\ NoManager /\ NoTwin /\ programs = LanguageSources

\* interpret as it would be if a compile error reset the VM the way a
\* runtime error does.
interpret_resetting_outcome(v, f, src) ==
    IF ~compiled(v.heap, src).ok
    THEN Outcome(reset_stack([v EXCEPT !.latest_error_message =
                                  compiled(v.heap, src).error_message]),
                 f, "CompileError")
    ELSE Let([c \in {vm_call(push_to_stack(v, FunctionValue(Rc(src, <<>>))),
                     Rc(src, <<>>), 0, 0)} |->
         IF c.ok THEN Continue(c.vm, Last(c.vm.frames))
         ELSE Outcome(c.vm, f, "RuntimeError")])

\* VM::interpret of the source named src, up to the first instruction of run.
interpret_outcome(v, f, src) ==
    IF ~compiled(v.heap, src).ok
    THEN Outcome([v EXCEPT !.latest_error_message =
                               compiled(v.heap, src).error_message],
                 f, "CompileError")
    ELSE Let([c \in {vm_call(push_to_stack(v, FunctionValue(Rc(src, <<>>))),
                     Rc(src, <<>>), 0, 0)} |->
         IF c.ok THEN Continue(c.vm, Last(c.vm.frames))
         ELSE Outcome(c.vm, f, "RuntimeError")])

\* The state after interpret has returned or has entered run.
Started(o, src) ==
    /\ Apply(o)
    /\ result' = IF o.ret = "continue" THEN "None" ELSE o.ret
    /\ program' = src
    /\ interprets' = interprets + 1
    /\ UNCHANGED <<programs, manager, twin>>

Interpret(heap) ==
    /\ status = "idle"
    /\ interprets < MaxInterprets
    /\ \E src \in programs :
          Started(interpret_outcome(VM(heap), frame, src), src)

OpCall(heap) ==
    /\ Running(heap, "OpCall")
    /\ \E now \in ClockReadings :
          Finish(call_outcome(VM(heap), Fetched, Instr(heap).arg, now))

OpNot(heap) == Running(heap, "OpNot") /\ Finish(not_outcome(VM(heap), Fetched))

OpNegate(heap) == Running(heap, "OpNegate") /\ Finish(negate_outcome(VM(heap), Fetched))

OpJump(heap) == Running(heap, "OpJump") /\ Finish(jump_outcome(VM(heap), Fetched, Instr(heap).arg))

OpJumpIfFalse(heap) ==
    Running(heap, "OpJumpIfFalse")
    /\ Finish(jump_if_false_outcome(VM(heap), Fetched, Instr(heap).arg))

OpLoop(heap) == Running(heap, "OpLoop") /\ Finish(loop_outcome(VM(heap), Fetched, Instr(heap).arg))

OpGetLocal(heap) ==
    Running(heap, "OpGetLocal") /\ Finish(get_local_outcome(VM(heap), Fetched, Instr(heap).arg))

OpSetLocal(heap) ==
    Running(heap, "OpSetLocal") /\ Finish(set_local_outcome(VM(heap), Fetched, Instr(heap).arg))

OpGetGlobal(heap) ==
    Running(heap, "OpGetGlobal") /\ Finish(get_global_outcome(VM(heap), Fetched, Instr(heap).arg))

OpSetGlobal(heap) ==
    Running(heap, "OpSetGlobal") /\ Finish(set_global_outcome(VM(heap), Fetched, Instr(heap).arg))

OpDefineGlobal(heap) ==
    Running(heap, "OpDefineGlobal")
    /\ Finish(define_global_outcome(VM(heap), Fetched, Instr(heap).arg))

OpEqual(heap) == Running(heap, "OpEqual") /\ Finish(equal_outcome(VM(heap), Fetched))

OpAdd(heap) == Running(heap, "OpAdd") /\ Finish(add_outcome(VM(heap), Fetched))

OpBinaryNumber(heap) ==
    /\ status = "running"
    /\ Instr(heap).op \in BinaryNumberOps
    /\ Finish(binary_number_outcome(VM(heap), Fetched, Instr(heap).op))

OpNil(heap) == Running(heap, "OpNil") /\ Finish(Continue(push_to_stack(VM(heap), Nil), Fetched))

OpTrue(heap) ==
    Running(heap, "OpTrue") /\ Finish(Continue(push_to_stack(VM(heap), Boolean(TRUE)), Fetched))

OpFalse(heap) ==
    Running(heap, "OpFalse")
    /\ Finish(Continue(push_to_stack(VM(heap), Boolean(FALSE)), Fetched))

OpConstant(heap) ==
    Running(heap, "OpConstant") /\ Finish(constant_outcome(VM(heap), Fetched, Instr(heap).arg))

OpPop(heap) == Running(heap, "OpPop") /\ Finish(Continue(pop_from_stack(VM(heap)), Fetched))

OpPrint(heap) == Running(heap, "OpPrint") /\ Finish(print_outcome(VM(heap), Fetched))

OpReturn(heap) == Running(heap, "OpReturn") /\ Finish(return_outcome(VM(heap), Fetched))

Next ==
    \E heap \in {Compiled} :
        \/ Interpret(heap)
        \/ OpCall(heap)
        \/ OpNot(heap)
        \/ OpNegate(heap)
        \/ OpJump(heap)
        \/ OpJumpIfFalse(heap)
        \/ OpLoop(heap)
        \/ OpGetLocal(heap)
        \/ OpSetLocal(heap)
        \/ OpGetGlobal(heap)
        \/ OpSetGlobal(heap)
        \/ OpDefineGlobal(heap)
        \/ OpEqual(heap)
        \/ OpAdd(heap)
        \/ OpBinaryNumber(heap)
        \/ OpNil(heap)
        \/ OpTrue(heap)
        \/ OpFalse(heap)
        \/ OpConstant(heap)
        \/ OpPop(heap)
        \/ OpPrint(heap)
        \/ OpReturn(heap)

Spec == Init /\ [][Next]_vars

\* The sources given to two VMs, one after the other.
TwinSources ==
    {"tour", "print", "precedence", "print_then_fail", "unterminated",
     "logical", "clock_then_fail"}

InitTwin == NewVM /\ NoManager /\ NoTwin /\ programs = TwinSources

\* A VM that keeps the printed values of the VM that ran before it.
UsedVM(heap) ==
    [heap |-> heap, frames |-> <<>>, stack |-> <<>>, stack_top |-> 0,
     globals |-> define_native(<<>>, "clock", "clock_native"),
     printed_values |-> printed_values, latest_error_message |-> "",
     error_trace |-> <<>>, panic |-> FALSE]

\* VM::new as a value.
FreshVM(heap) ==
    [heap |-> heap, frames |-> <<>>, stack |-> <<>>, stack_top |-> 0,
     globals |-> define_native(<<>>, "clock", "clock_native"),
     printed_values |-> <<>>, latest_error_message |-> "",
     error_trace |-> <<>>, panic |-> FALSE]

\* The VM is done with its source (interpret has returned or panicked);
\* another VM::new() takes its place and is given the same source, and twin
\* keeps how the first one ended.
Second(heap) ==
    /\ twin.status = "fresh"
    /\ interprets = 1
    /\ status # "running"
    /\ twin' = [status |-> status, result |-> result,
                printed_values |-> printed_values,
                latest_error_message |-> latest_error_message]
    /\ \E o \in {interpret_outcome(FreshVM(heap), NewCallFrame, program)} :
          /\ Apply(o)
          /\ result' = IF o.ret = "continue" THEN "None" ELSE o.ret
    /\ UNCHANGED <<program, interprets, programs, manager>>

\* Each of the two VMs is given one source.
NextTwin ==
    \/ Next /\ interprets' = 1
    \/ \E heap \in {Compiled} : Second(heap)

SpecTwin == InitTwin /\ [][NextTwin]_vars

\* The sources of a session on the errors of the scanner.
ScanSources == {"tour", "unterminated", "unexpected_character", "scan_errors"}

InitAdvance == NewVM /\ NoManager /\ NoTwin /\ programs = ScanSources

VMUnchanged ==
    UNCHANGED <<frames, stack, stack_top, globals, printed_values,
                latest_error_message, error_trace, frame, status, result,
                program, interprets, programs, twin>>

\* The start of CompilerManager::compile: init_compiler and the first
\* advance.
Parse ==
    /\ NoManager
    /\ \E src \in programs :
          manager' = advance(init_compiler(CompilerManager(Sources[src]),
                                           "Script"))
    /\ VMUnchanged

\* A call of CompilerManager::advance by the parser.
Advance ==
    /\ manager.compilers # <<>>
    /\ manager.parser.current.token_type # "Eof"
    /\ manager' = advance(manager)
    /\ VMUnchanged

\* A call of CompilerManager::synchronize by declaration.
Synchronize ==
    /\ manager.parser.panic_mode
    /\ manager' = synchronize(manager)
    /\ VMUnchanged

NextAdvance == Next \/ Parse \/ Advance \/ Synchronize

SpecAdvance == InitAdvance /\ [][NextAdvance]_vars

\* The sources of a session on function declarations.
FunctionSources ==
    {"tour", "two_functions", "nested_functions", "sibling_parameters",
     "statements"}

InitDeclarations == NewVM /\ NoManager /\ NoTwin /\ programs = FunctionSources

\* One turn of the loop of CompilerManager::compile:
\* `while !match_token(Eof) { declaration() }`.
Declaration ==
    /\ manager.compilers # <<>>
    /\ ~check(manager, "Eof")
    /\ manager' = declaration(manager)
    /\ VMUnchanged

NextDeclarations == Next \/ Parse \/ Declaration

SpecDeclarations == InitDeclarations /\ [][NextDeclarations]_vars

\* The sources of a session on the blocks of a script.
ScopeSources == {"scopes", "open_blocks", "tour"}

InitScopes == NewVM /\ NoManager /\ NoTwin /\ programs = ScopeSources

\* The parser is in a block of the script, at the end of its declarations.
at_block_end(m) ==
    /\ m.current = 0
    /\ current_compiler(m).scope_depth > 0
    /\ (check(m, "RightBrace") \/ check(m, "Eof"))

AtBlockEnd == at_block_end(manager)

\* The start of a block statement in CompilerManager::statement: the '{' is
\* matched and begin_scope called.
block_begin(m) == begin_scope(match_token(m, "LeftBrace").m)

\* The end of a block statement as it would be if the scope stayed open.
block_end_keeping_scope(m) ==
    Let([m1 \in {consume(m, "RightBrace", "Expect '}' after block.")} |->
    IF m1.parser.panic_mode THEN synchronize(m1) ELSE m1])

\* The end of a block statement: block leaves its loop and consumes the '}',
\* statement calls end_scope, and the declaration that the statement was
\* synchronizes.
block_end(m) ==
    Let([m1 \in {end_scope(consume(m, "RightBrace",
                                   "Expect '}' after block."))} |->
    IF m1.parser.panic_mode THEN synchronize(m1) ELSE m1])

\* A declaration of the script or of one of its blocks that is no block.
ScopedDeclaration ==
    /\ manager.compilers # <<>>
    /\ ~check(manager, "LeftBrace")
    /\ ~AtBlockEnd
    /\ Declaration

\* The start of a block statement of the script.
BeginBlock ==
    /\ manager.compilers # <<>>
    /\ check(manager, "LeftBrace")
    /\ manager' = block_begin(manager)
    /\ VMUnchanged

\* The end of that block statement.
EndBlock ==
    /\ manager.compilers # <<>>
    /\ AtBlockEnd
    /\ manager' = block_end(manager)
    /\ VMUnchanged

NextScopes == Next \/ Parse \/ ScopedDeclaration \/ BeginBlock \/ EndBlock

SpecScopes == InitScopes /\ [][NextScopes]_vars

\* The sources of the runs of CompilerManager::compile alone.
CompileSources == DOMAIN Sources \ {"deep", "constants_257"}

InitCompile == NewVM /\ NoManager /\ NoTwin /\ programs = CompileSources

\* compile has left its loop and called end.
compile_returned(m) == m.compilers # <<>> /\ m.current = -1

CompileReturned == compile_returned(manager)

\* The most turns of its loops that a run of compile is followed for.
MaxTurns == 40

\* One turn of the loops of compile and of block in m: the start or the end
\* of a block of the script, the end of compile (match_token(Eof) ends the
\* loop and end closes the script), or a declaration.
compile_turn(m) ==
    IF check(m, "LeftBrace") THEN block_begin(m)
    ELSE IF at_block_end(m) THEN block_end(m)
    ELSE IF check(m, "Eof") THEN end(match_token(m, "Eof").m).m
    ELSE declaration(m)

\* The managers of a run of compile from m on, turn by turn.
RECURSIVE compile_run(_, _)
compile_run(m, turns) ==
    IF compile_returned(m) \/ turns = 0 THEN <<m>>
    ELSE <<m>> \o compile_run(compile_turn(m), turns - 1)

\* The runs of compile on the sources.
CompileRuns ==
    [n \in CompileSources |->
        compile_run(advance(init_compiler(CompilerManager(Sources[n]),
                                          "Script")), MaxTurns)]

\* The name of the source that m compiles.
SourceName(m) == CHOOSE n \in DOMAIN Sources : Sources[n] = m.scanner.source

\* The places of m in its run, the last one left out.
Turns(runs, m) ==
    {i \in 1..(Len(runs[SourceName(m)]) - 1) : runs[SourceName(m)][i] = m}

\* A turn of the loops of compile: the manager becomes what the turn that
\* is due makes of it.
CompileTurn ==
    /\ manager.compilers # <<>>
    /\ ~CompileReturned
    /\ \E runs \in {CompileRuns} :
          /\ Turns(runs, manager) # {}
          /\ manager' = runs[SourceName(manager)]
                             [1 + CHOOSE i \in Turns(runs, manager) : TRUE]
    /\ VMUnchanged

NextCompile == Parse \/ CompileTurn

\* compile is one sequential call: while it has not returned, its next turn
\* is taken.
SpecCompile ==
    InitCompile /\ [][NextCompile]_vars /\ WF_vars(NextCompile)

\* The sources of a session of the compiler alone, on its errors.
ErrorSources ==
    {"assign_sum", "scan_errors", "unexpected_character", "body_must_be_block"}

InitErrors == NewVM /\ NoManager /\ NoTwin /\ programs = ErrorSources

\* The most messages that the parser of a session reports.
MaxErrors == 3

\* Messages of the errors that the parser raises at the current token.
ParserMessages == {"Expect expression.", "Expect ';' after expression."}

\* A call of CompilerManager::error_at by consume, at the current token.
ErrorAtCurrent ==
    /\ manager.compilers # <<>>
    /\ Len(manager.stderr) < MaxErrors
    /\ \E message \in ParserMessages :
          manager' = error_at(manager, manager.parser.current, message)
    /\ VMUnchanged

NextErrors == Parse \/ Advance \/ Synchronize \/ Declaration \/ ErrorAtCurrent

SpecErrors == InitErrors /\ [][NextErrors]_vars

SpecDeep == InitDeep /\ [][Next]_vars

SpecLanguage == InitLanguage /\ [][Next]_vars

(***************************************************************************)
(* Properties.  interpret has returned when status is "idle" and result    *)
(* is not "None"; program is the source it was given.                      *)
(***************************************************************************)
Returned(r) == status = "idle" /\ result = r

\* C1: whenever interpret returns RuntimeError, whatever the kind of the
\* runtime error, the VM has been reset: stack_top = 0 and frames is empty.
\* The binary operators return RuntimeError without runtime_error, so the
\* stack and the frames of `1 - nil;` stay.
C1_RuntimeErrorResetsStack ==
    Returned("RuntimeError") => (stack_top = 0 /\ frames = <<>>)

\* C2: a top-level Return pops from a stack that still holds a value: a
\* program that compiles and raises no runtime error returns Ok with
\* frames empty and stack_top = 0, and no pop finds the stack empty.  end
\* emits no Nil, so the Return of the script pops the script function and
\* the second pop of `print 1;` finds stack_top = 0.
C2_TopLevelReturnOk ==
    (program = "print" /\ status # "running")
        => (Returned("Ok") /\ frames = <<>> /\ stack_top = 0)

\* The messages CompilerManager gives to error and error_at.
CompileErrorMessages ==
    {"Unexpected character.", "Unterminated string.", "Uninitialized token.",
     "Expect expression.", "Invalid assignment target.",
     "Too many constants in one chunk.",
     "Too many local variables in function.",
     "Already variable with this name in this scope.",
     "Can't read local variable in its own initializer.",
     "Can't have more than 255 parameters.",
     "Can't have more than 255 arguments.",
     "Expect variable name.", "Expect function name.",
     "Expect parameter name.", "Expect '(' after function name.",
     "Expect ')' after parameters.", "Expect ')' after arguments.",
     "Expect ')' after expression.", "Expect '}' after block.",
     "Expect ';' after value.", "Expect ';' after expression.",
     "Expect ';' after variable declaration.",
     "Expect '(' after 'if'.", "Expect ')' after condition.",
     "Expect '(' after 'while'.", "Expect '(' after 'for'.",
     "Expect ';' after loop condition.", "Expect ')' after for clauses."}

\* C3: an interpret of a source that fails to compile returns CompileError
\* at once (nothing runs), leaves stack_top, frames, globals and
\* printed_values as they were, and leaves the message of the compile error
\* in latest_error_message.
C3_CompileErrorLeavesVM ==
    [][\A heap \in {Compiled} :
          (interprets' = interprets + 1 /\ ~compiled(heap, program').ok)
              => /\ status' = "idle"
                 /\ result' = "CompileError"
                 /\ UNCHANGED <<stack_top, frames, globals, printed_values>>
                 /\ latest_error_message'
                        = compiled(heap, program').error_message
                 /\ latest_error_message' \in CompileErrorMessages]_vars

\* A compile error reported by a VM that an earlier runtime error left with
\* a frame and a value on the stack.
C3_CompileErrorAfterRuntimeError ==
    Returned("CompileError") /\ stack_top = 1 /\ Len(frames) = 1

\* The instruction run has executed last: the local frame keeps its ip when
\* run returns an error.
Executed(heap) == read_code(deref(heap, frame.function).chunk, frame.ip - 1)

\* C4: when Subtract, Multiply, Divide, Greater, Less or Add fails on its
\* operands, interpret returns RuntimeError and latest_error_message is
\* "Operands must be numbers.".  These arms return the error without
\* runtime_error, so no message is set: after `1 - nil;` the message is
\* still the one the VM had before.
C4_OperandsMustBeNumbers ==
    \A heap \in {Compiled} :
        (Returned("RuntimeError") /\ frame.ip > 0
         /\ Executed(heap).op \in BinaryNumberOps \cup {"OpAdd"})
            => latest_error_message = "Operands must be numbers."

\* The bytecode of the function run is executing.
RunningCode(heap) == deref(heap, frame.function).chunk.bytecode

\* C5: every compiled function body ends with the pair Nil; Return, so a
\* body that runs to its end returns nil.  end emits Return alone: the
\* code run executes, of a script or of a declared function, ends with
\* Return after whatever the last statement emitted.
C5_BodyEndsWithNilReturn ==
    \A heap \in {Compiled} :
        status = "running"
            => /\ Len(RunningCode(heap)) >= 2
               /\ SubSeq(RunningCode(heap), Len(RunningCode(heap)) - 1,
                         Len(RunningCode(heap)))
                      = <<I0("OpNil"), I0("OpReturn")>>

\* C6: `return e;` in a function body is accepted by the compiler and
\* hands the value of e to the caller: `fun f(a) { return a; } print f(1`
\* with its call closed prints 1.  statement has no case for `return`, so
\* the keyword is parsed as the start of an expression and the source is
\* rejected.
C6_ReturnStatementAccepted ==
    (program = "return" /\ status = "idle")
        => (result = "Ok" /\ printed_values # <<>>
            /\ Last(printed_values) = Number(F64(1, 1)))

\* C7: a call closed by ')' compiles without a compile error:
\* `fun f() {} print f();` is not rejected.  argument_list consumes a
\* LeftBrace where the ')' is due, so the source is rejected with
\* "Expect ')' after arguments.".
C7_CallClosedByParenCompiles ==
    program = "call_paren" => result # "CompileError"

\* The value Call(n) finds below its n arguments.
Callee(heap) == StackGet(stack, stack_top - 1 - Instr(heap).arg)

\* run is about to execute Call(n) on a Function value.
CallsFunction(heap) ==
    /\ Running(heap, "OpCall")
    /\ stack_top >= 1 + Instr(heap).arg
    /\ Callee(heap).t = "Function"

\* C8: Call(n) on a function whose arity is not n pushes no call frame and
\* makes interpret return RuntimeError with the message
\* "Expected <arity> arguments but got <n>.", both numbers in decimal.
C8_ArityMismatch ==
    [][\A heap \in {Compiled} :
          (CallsFunction(heap)
           /\ deref(heap, Callee(heap).f).arity # Instr(heap).arg)
              => /\ status' = "idle"
                 /\ result' = "RuntimeError"
                 /\ Len(frames') <= Len(frames)
                 /\ latest_error_message'
                        = "Expected "
                          \o Decimal(deref(heap, Callee(heap).f).arity)
                          \o " arguments but got "
                          \o Decimal(Instr(heap).arg) \o "."]_vars

\* `fun f(a, b) {}` called with one argument.
C8_MissingArgument ==
    /\ Returned("RuntimeError")
    /\ program = "missing_argument"
    /\ latest_error_message = "Expected 2 arguments but got 1."
    /\ frames = <<>>

\* C9: frames never holds more than FRAMES_MAX frames, the frame of the
\* script included.  A Call on a function of matching arity pushes a frame
\* while fewer than FRAMES_MAX are active; with FRAMES_MAX active it pushes
\* nothing and interpret returns RuntimeError with "Stack overflow.".
C9_FramesMax ==
    [][\A heap \in {Compiled} :
          /\ Len(frames') <= FRAMES_MAX
          /\ (CallsFunction(heap)
              /\ deref(heap, Callee(heap).f).arity = Instr(heap).arg)
                 => IF Len(frames) < FRAMES_MAX
                    THEN /\ status' = "running"
                         /\ Len(frames') = Len(frames) + 1
                         /\ Last(frames').function = Callee(heap).f
                    ELSE /\ status' = "idle"
                         /\ result' = "RuntimeError"
                         /\ Len(frames') <= Len(frames)
                         /\ latest_error_message' = "Stack overflow."]_vars

\* The recursion of `fun f(a) { f(a {; } f(1 {;` stopped at the call that
\* found FRAMES_MAX frames.
C9_StackOverflowReported ==
    /\ Returned("RuntimeError")
    /\ program = "recursion"
    /\ latest_error_message = "Stack overflow."
    /\ Len(error_trace) = FRAMES_MAX

\* C10: a push on a full stack (stack_top = STACK_MAX) is reported as a
\* runtime error: interpret returns RuntimeError, the thread does not
\* panic.  push_to_stack indexes the array without a test, so the push
\* that finds stack_top = STACK_MAX panics on the index.
C10_FullStackIsRuntimeError ==
    ~(status = "panicked" /\ stack_top = STACK_MAX)

\* The instructions whose operand is an index into the constants.
ConstantOps == {"OpConstant", "OpGetGlobal", "OpSetGlobal", "OpDefineGlobal"}

\* C11: no instruction of a chunk that compiled carries a constant index
\* above 255: the constant after the 256th is refused with "Too many
\* constants in one chunk.".  make_constant tests the index after the cast
\* to u8, which is never above u8::MAX, so 257 declarations compile and the
\* 257th runs with the constant index 256.
C11_ConstantIndexFitsU8 ==
    \A heap \in {Compiled} :
        (status = "running" /\ Instr(heap).op \in ConstantOps)
            => Instr(heap).arg <= U8_MAX

\* C12: a function declaration with 255 parameters compiles without error
\* (and one with 256 is rejected with "Can't have more than 255
\* parameters.").  Slot 0 of the function is taken when its parameters are
\* declared, so add_local refuses the 255th parameter: 254 is the most
\* that compile.
C12_255ParametersCompile ==
    program = "parameters_255" => result # "CompileError"

\* How many Print instructions of the script lie before its ip.
PrintsBefore(heap) ==
    Cardinality({i \in 1..frame.ip : RunningCode(heap)[i].op = "OpPrint"})

\* The values the running script has printed so far: the last PrintsBefore
\* of printed_values, which keeps the values of earlier interprets.
Printed(heap) ==
    SubSeq(printed_values, Len(printed_values) - PrintsBefore(heap) + 1,
           Len(printed_values))

\* The script of that name is running, or has run, without an error.
Runs(heap, name) ==
    /\ program = name
    /\ compiled(heap, name).ok
    /\ result # "RuntimeError"
    /\ frame.function = Rc(name, <<>>)

\* The first PrintsBefore of the expected values are the values printed.
PrintsInOrder(heap, expected) ==
    /\ PrintsBefore(heap) <= Len(expected)
    /\ Printed(heap) = SubSeq(expected, 1, PrintsBefore(heap))

Num(n) == Number(F64(n, 1))

\* What the statements of the source precedence print when Equality <
\* Comparison < Term < Factor < Unary and the operators associate to the
\* left.
PrecedenceValues ==
    <<Num(-4), Num(7), Num(1), Num(7), Boolean(TRUE), Boolean(TRUE),
      Num(-3), Num(2), Boolean(TRUE), Num(-5)>>

\* C13: the binary operators bind by precedence, Equality < Comparison <
\* Term < Factor < Unary, and associate to the left: `1 - 2 - 3` is
\* (1 - 2) - 3, `1 + 2 * 3` is 1 + (2 * 3); and a parenthesized group emits
\* no instruction of its own: `print (1 + 2) * ((3));` is the code of the
\* operands and operators only.
C13_PrecedenceAndGrouping ==
    \A heap \in {Compiled} :
        /\ program = "precedence"
              => Runs(heap, "precedence")
                 /\ PrintsInOrder(heap, PrecedenceValues)
        /\ program = "grouping"
              => Runs(heap, "grouping")
                 /\ RunningCode(heap)
                       = <<I1("OpConstant", 0), I1("OpConstant", 1),
                           I0("OpAdd"), I1("OpConstant", 2),
                           I0("OpMultiply"), I0("OpPrint"), I0("OpReturn")>>

\* The script of precedence has printed its ten values.
C13_AllPrinted ==
    \A heap \in {Compiled} :
        /\ program = "precedence"
        /\ Running(heap, "OpReturn")
        /\ PrintsBefore(heap) = Len(PrecedenceValues)

\* The sources whose `=` follows an expression that is no variable parsed
\* at Assignment precedence: a group, a sum, a negation.
InvalidTargets == {"assign_group", "assign_sum", "assign_not"}

\* The operands of the Set instructions in the code of the script.
SetOperands(heap, op) ==
    {RunningCode(heap)[i].arg :
        i \in {j \in 1..Len(RunningCode(heap)) : RunningCode(heap)[j].op = op}}

\* C14: an `=` left over after an expression parsed at Assignment
\* precedence, as in `(a) = 1`, `a + b = 1` and `!a = 1`, is the compile
\* error "Invalid assignment target."; a variable parsed at Assignment
\* precedence takes the `=` and compiles to SetLocal or SetGlobal:
\* `b = a = 2` sets the global a and the local b to 2.
C14_InvalidAssignmentTarget ==
    \A heap \in {Compiled} :
        /\ program \in InvalidTargets
              => /\ result = "CompileError"
                 /\ latest_error_message = "Invalid assignment target."
        /\ program = "assign"
              => /\ Runs(heap, "assign")
                 /\ PrintsInOrder(heap, <<Num(2), Num(2)>>)
                 /\ {read_constant(deref(heap, frame.function).chunk, i) :
                        i \in SetOperands(heap, "OpSetGlobal")}
                       = {String("a")}
                 /\ SetOperands(heap, "OpSetLocal") = {1}

\* The assignment to a sum has been refused by a VM that had been given
\* another source before.
C14_TargetsRefused ==
    /\ program = "assign_sum"
    /\ interprets = 2
    /\ Returned("CompileError")
    /\ latest_error_message = "Invalid assignment target."

\* The sources that read a local in its own initializer: with no other a,
\* with a global a, with a local a of the enclosing block.
OwnInitializers ==
    {"own_initializer", "own_initializer_in_global",
     "own_initializer_in_local"}

\* C15: a local read in its own initializer, `{ var a = a; }`, is the
\* compile error "Can't read local variable in its own initializer.", also
\* when an outer variable has the name; at global scope `var a = a + 1;`
\* compiles and reads the global a that exists.
C15_OwnInitializer ==
    \A heap \in {Compiled} :
        /\ program \in OwnInitializers
              => /\ result = "CompileError"
                 /\ latest_error_message
                        = "Can't read local variable in its own initializer."
        /\ program = "global_initializer"
              => /\ Runs(heap, "global_initializer")
                 /\ PrintsInOrder(heap, <<Num(2)>>)

\* The initializer that could have read a global has been refused.
C15_RefusedUnderGlobal ==
    /\ program = "own_initializer_in_global"
    /\ Returned("CompileError")
    /\ latest_error_message
           = "Can't read local variable in its own initializer."

\* The sources that declare a name twice in one scope: in a block, and as
\* a parameter and in the body of the function.
Redeclarations == {"redeclare_in_block", "redeclare_parameter"}

\* C16: a local declared with the name of a local of the same scope, the
\* parameters being locals of the scope of the body, is the compile error
\* "Already variable with this name in this scope."; the name of a global
\* or of a local of an enclosing scope may be declared again, as in
\* `var a = 1; { var a = 2; { var a = 3; ...` and `fun f(a) { { var a; } }`.
C16_AlreadyDeclared ==
    \A heap \in {Compiled} :
        /\ program \in Redeclarations
              => /\ result = "CompileError"
                 /\ latest_error_message
                        = "Already variable with this name in this scope."
        /\ program = "declare_nested"
              => /\ Runs(heap, "declare_nested")
                 /\ PrintsInOrder(heap, <<Num(3), Num(2), Num(1)>>)

\* The local named as a parameter has been refused.
C16_ParameterRedeclared ==
    /\ program = "redeclare_parameter"
    /\ Returned("CompileError")
    /\ latest_error_message = "Already variable with this name in this scope."

\* The name a global instruction refers to: the constant at its operand.
GlobalName(heap) ==
    read_constant(deref(heap, frame.function).chunk, Instr(heap).arg).s

\* The value on top of the stack.
Top == StackGet(stack, stack_top - 1)

\* C17: DefineGlobal never fails and sets globals[name] to the value it
\* pops, whether or not the name is a global already; the other globals
\* stay.  After `var a = "1"; var a;` the global a is nil, and after
\* `var a = "1"; var a = "2";` it is "2".
C17_DefineGlobalAgain ==
    [][\A heap \in {Compiled} :
          /\ (Running(heap, "OpDefineGlobal") /\ stack_top > 0)
                => /\ status' = "running"
                   /\ stack_top' = stack_top - 1
                   /\ DOMAIN globals' = DOMAIN globals \cup {GlobalName(heap)}
                   /\ globals'[GlobalName(heap)] = Top
                   /\ \A k \in DOMAIN globals \ {GlobalName(heap)} :
                          globals'[k] = globals[k]
          /\ program' = "redefine"
                => /\ Runs(heap, "redefine")'
                   /\ PrintsInOrder(heap, <<Nil, String("2")>>)']_vars

\* The global a, which held "1" and then nil, has just been defined again.
C17_Redefined ==
    \A heap \in {Compiled} :
        /\ program = "redefine"
        /\ PrintsBefore(heap) = 1
        /\ "a" \in DOMAIN globals
        /\ globals["a"] = String("2")

\* What the source shadow prints when a name is the newest local of that
\* name in scope, or else the global, and a block's locals end with it.
ShadowValues ==
    <<String("shadow"), String("global"), String("inner"), String("outer"),
      String("outer"), String("global")>>

\* C18: a name denotes the most recently declared local of that name that
\* is in scope in the current function, and otherwise the global; the
\* locals of a block are gone when it ends, so the name denotes again what
\* it denoted before: `var a = "global"; { var a = "shadow"; print a; }
\* print a;` prints shadow, then global.  The body of a function declared
\* under a local a reads the global a.
C18_NameResolution ==
    \A heap \in {Compiled} :
        /\ program = "shadow"
              => Runs(heap, "shadow") /\ PrintsInOrder(heap, ShadowValues)
        /\ program = "resolve_in_function"
              => /\ compiled(heap, "resolve_in_function").ok
                 /\ result # "RuntimeError"
                 /\ Running(heap, "OpPrint") => Top = String("global")

\* The script of shadow has printed its six values.
C18_ShadowPrinted ==
    \A heap \in {Compiled} :
        /\ program = "shadow"
        /\ PrintsBefore(heap) = Len(ShadowValues)
        /\ Len(printed_values) >= Len(ShadowValues)

\* run is about to execute GetGlobal or SetGlobal on a name that is no
\* global.
UndefinedGlobal(heap) ==
    /\ status = "running"
    /\ Instr(heap).op \in {"OpGetGlobal", "OpSetGlobal"}
    /\ GlobalName(heap) \notin DOMAIN globals

\* C19: GetGlobal and SetGlobal on a name that is no global make interpret
\* return RuntimeError with "Undefined variable '<name>'." and leave
\* globals as it was (the failed SetGlobal creates no key); a SetGlobal on
\* a global changes the value of that key only.
C19_UndefinedVariable ==
    [][\A heap \in {Compiled} :
          /\ UndefinedGlobal(heap)
                => /\ status' = "idle"
                   /\ result' = "RuntimeError"
                   /\ latest_error_message'
                          = "Undefined variable '" \o GlobalName(heap) \o "'."
                   /\ globals' = globals
          /\ (Running(heap, "OpSetGlobal") /\ stack_top > 0
              /\ GlobalName(heap) \in DOMAIN globals)
                => /\ status' = "running"
                   /\ globals' = [globals EXCEPT ![GlobalName(heap)] = Top]
                   /\ stack_top' = stack_top]_vars

\* `y = 1;` has failed on y and has left no global y.
C19_FailedSetLeavesNoKey ==
    /\ program = "undefined_set"
    /\ Returned("RuntimeError")
    /\ latest_error_message = "Undefined variable 'y'."
    /\ "y" \notin DOMAIN globals

\* What the source logical prints when the right operand of `and` runs iff
\* the left is truthy and that of `or` iff the left is falsey: each
\* expression, then x, which the right operand assigns.
LogicalValues ==
    <<Nil, Num(0), Num(2), Num(2), Num(3), Num(3), Boolean(TRUE), Num(3)>>

\* C20: `L and R` runs R iff L is truthy and is L's value when L is falsey,
\* else R's; `L or R` runs R iff L is falsey and is L's value when L is
\* truthy, else R's; either leaves exactly one value on the stack: the
\* script's Print finds it above the script function.
C20_AndOr ==
    \A heap \in {Compiled} :
        program = "logical"
            => /\ Runs(heap, "logical")
               /\ PrintsInOrder(heap, LogicalValues)
               /\ Running(heap, "OpPrint") => stack_top = 2

\* The script of logical has printed its eight values, x for the last time.
C20_AllPrinted ==
    \A heap \in {Compiled} :
        /\ program = "logical"
        /\ PrintsBefore(heap) = Len(LogicalValues)
        /\ Len(printed_values) >= Len(LogicalValues)
        /\ globals["x"] = Num(3)

\* Two values of the same variant with equal payload: numbers by the
\* equality of f64, the others by their content, a function being equal to
\* itself.
SameValue(v1, v2) ==
    /\ v1.t = v2.t
    /\ IF v1.t = "Number" THEN F64Eq(v1.n, v2.n) ELSE v1 = v2

\* C21: Equal pushes true iff its operands are of the same variant with
\* equal payload, a Function or NativeFunction compared with itself
\* included, and false for operands of different variants.  equals has no
\* case for the two function variants and answers false: `clock == clock`
\* and `f == f` push false.
C21_EqualByVariant ==
    [][\A heap \in {Compiled} :
          (Running(heap, "OpEqual") /\ stack_top >= 2)
              => /\ status' = "running"
                 /\ stack_top' = stack_top - 1
                 /\ StackGet(stack', stack_top' - 1)
                        = Boolean(SameValue(StackGet(stack, stack_top - 2),
                                            Top))]_vars

\* C23: printed_values grows by appending only: a Print appends the value
\* it pops, and no other instruction, no runtime error with its
\* reset_stack and no later interpret on the VM changes the sequence.
C23_PrintedValuesAppendOnly ==
    [][\A heap \in {Compiled} :
          IF Running(heap, "OpPrint") /\ stack_top > 0
          THEN printed_values' = Append(printed_values, Top)
          ELSE printed_values' = printed_values]_vars

\* The values printed before a runtime error are still there, in order,
\* when a second interpret on the VM has printed and failed again.
C23_KeptAcrossErrors ==
    /\ Returned("RuntimeError")
    /\ interprets = 2
    /\ printed_values = <<Num(1), Num(2), Num(1), Num(2)>>

\* C24: when the token after the ')' of the parameters of a function is not
\* '{', the error reported is "Expect '{' before function body.".  function
\* consumes the '{' with the message of the ')', so `fun f() 123; }`, whose
\* only error is the missing '{', reports "Expect ')' after parameters.".
C24_BodyMustBeBlock ==
    \A heap \in {Compiled} :
        (program = "body_not_block" /\ Returned("CompileError"))
            => /\ compiled(heap, program).stderr
                      = <<"Expect '{' before function body.">>
               /\ latest_error_message = "Expect '{' before function body."

\* C25: when the compilation of a source reports several errors, a later
\* one after the parser has resynchronized, latest_error_message after
\* interpret is the message of the first error reported.  error_at assigns
\* error_message at every error it reports, so the last one stays.
C25_FirstErrorIsLatest ==
    \A heap \in {Compiled} :
        (Returned("CompileError") /\ Len(compiled(heap, program).stderr) > 1)
            => latest_error_message = Head(compiled(heap, program).stderr)

\* C26: a function declared with `fun` in a block can call itself:
\* `{ fun fib(n) { if (n < 2) return n; return fib(n - 1) + fib(n - 2); }
\* print fib(8); }` prints 21 and raises no undefined-variable error.
\* No rule parses `return`, and the name of the function in its own body
\* is no local of the compiler of the body.
C26_LocalRecursion ==
    /\ (program = "local_recursion" /\ status = "idle" /\ result # "None")
          => /\ result = "Ok"
             /\ printed_values # <<>>
             /\ Last(printed_values) = Num(21)
    /\ (program = "local_countdown" /\ status = "idle" /\ result # "None")
          => /\ result = "Ok"
             /\ latest_error_message # "Undefined variable 'f'."

\* The function a source declares: the function constant of its script.
Declared(heap, name) ==
    Let([constants \in {compiled(heap, name).function.chunk.constants} |->
    constants[CHOOSE i \in 1..Len(constants) : constants[i].t = "Function"].f])

\* The names that the instructions op of a function take from its constants.
GlobalNames(heap, func, op) ==
    {read_constant(func.chunk, func.chunk.bytecode[i].arg).s :
        i \in {j \in 1..Len(func.chunk.bytecode) :
                  func.chunk.bytecode[j].op = op}}

\* The slots that the GetLocal and SetLocal of a function refer to.
LocalSlots(func) ==
    {func.chunk.bytecode[i].arg :
        i \in {j \in 1..Len(func.chunk.bytecode) :
                  func.chunk.bytecode[j].op \in {"OpGetLocal", "OpSetLocal"}}}

Scanned == scan_token(manager.scanner).tok.token_type

Associativity == {"associativity", "associativity_local"}

\* C29: SetLocal and a SetGlobal on a global store the top of the stack and
\* leave stack_top and the top value as they were, so an assignment is an
\* expression; `a = b = c;` assigns the value of c to b, and then to a.
C29_AssignmentKeepsTop ==
    [][\A heap \in {Compiled} :
          /\ (Running(heap, "OpSetLocal") /\ stack_top > 0)
                => /\ status' = "running"
                   /\ stack_top' = stack_top
                   /\ Top' = Top
                   /\ StackGet(stack', frame.stack_index + Instr(heap).arg)
                          = Top
          /\ (Running(heap, "OpSetGlobal") /\ stack_top > 0
              /\ GlobalName(heap) \in DOMAIN globals)
                => /\ status' = "running"
                   /\ stack_top' = stack_top
                   /\ Top' = Top
                   /\ globals'[GlobalName(heap)] = Top
          /\ \A name \in Associativity : program' = name
                => /\ Runs(heap, name)'
                   /\ PrintsInOrder(heap, <<String("c"), String("c"),
                                            String("c")>>)']_vars

\* `a = b = c;` on the locals of a block has printed c three times.
C29_LocalsAssigned ==
    \A heap \in {Compiled} :
        /\ program = "associativity_local"
        /\ PrintsBefore(heap) = 3
        /\ printed_values = <<String("c"), String("c"), String("c")>>

\* The manager as function() has it after its init_compiler.
FunctionStarted == init_compiler(manager, "Function")

\* C30: each function declaration is compiled by a fresh compiler: when
\* function() starts on a declaration, the first or a later sibling, the
\* current compiler is the one just pushed (current is the index of the
\* last of compilers), with an empty chunk, arity 0 and slot 0 as its only
\* local.  end takes one from current and leaves compilers as it is, so
\* the second sibling is compiled by the compiler of the first.
C30_FreshCompiler ==
    check(manager, "Fun")
        => /\ FunctionStarted.current = Len(FunctionStarted.compilers) - 1
           /\ current_compiler(FunctionStarted).function.chunk = NewChunk
           /\ current_compiler(FunctionStarted).function.arity = 0
           /\ Len(current_compiler(FunctionStarted).locals) = 1

\* Both VMs are done with the source: interpret has returned or panicked.
BothDone == twin.status \in {"idle", "panicked"} /\ status \in {"idle", "panicked"}

\* The name clock occurs in the text of the source.
MentionsClock(name) ==
    \E i \in 0..(Len(Sources[name]) - 5) :
        Collect(Sources[name], i, i + 5) = "clock"

\* C22 as stated: two fresh VMs given the same source end with the same
\* printed_values and the same result of interpret.  clock() returns what
\* the system clock reads, so `print clock(...)` prints what that run read.
C22_SameSourceSameOutput ==
    BothDone => /\ printed_values = twin.printed_values
                /\ result = twin.result
                /\ status = twin.status

\* C22: two fresh VMs given the same source in which clock does not occur
\* end with the same printed_values, the same result of interpret and the
\* same error message.
C22_SameOutputWithoutClock ==
    (BothDone /\ ~MentionsClock(program))
        => /\ printed_values = twin.printed_values
           /\ result = twin.result
           /\ status = twin.status
           /\ latest_error_message = twin.latest_error_message

\* Both VMs have printed 1 and 2 and have returned RuntimeError.
C22_BothFailedAlike ==
    /\ BothDone
    /\ program = "print_then_fail"
    /\ result = "RuntimeError"
    /\ printed_values = <<Num(1), Num(2)>>
    /\ twin.printed_values = <<Num(1), Num(2)>>

\* The function of that name among the constants of the script of a source.
DeclaredAs(heap, name, function_name) ==
    Let([constants \in {compiled(heap, name).function.chunk.constants} |->
    constants[CHOOSE i \in 1..Len(constants) :
                 /\ constants[i].t = "Function"
                 /\ constants[i].f.name = function_name].f])

\* C31: the arity of the Function compiled for a declaration is the number
\* of parameters written, and the i-th parameter is the local of slot i,
\* slot 0 being the function: `fun g(b, c) { print b; print c; }` has
\* arity 2 and reads slots 1 and 2, and g(1, 2) is a call of the right
\* arity.  Declared after `fun f(a) ...`, g is compiled by the compiler of
\* f, which holds a in slot 1 and an arity of 1.
C31_ArityAndSlots ==
    \A heap \in {Compiled} :
        program = "sibling_parameters"
            => /\ DeclaredAs(heap, program, "f").arity = 1
               /\ LocalSlots(DeclaredAs(heap, program, "f")) = {1}
               /\ DeclaredAs(heap, program, "g").arity = 2
               /\ LocalSlots(DeclaredAs(heap, program, "g")) = {1, 2}
               /\ latest_error_message # "Expected 3 arguments but got 2."

\* What statements prints.
StatementValues ==
    <<Num(0), Num(1), Num(3), Num(4), Num(1), Num(0), Num(1), Num(1), Num(3)>>

\* The manager stands between two declarations of the script that the VM
\* is running, and run is about to execute the instruction that the next
\* declaration starts with.
AtStatementStart ==
    /\ status = "running"
    /\ program = "statements"
    /\ frame.function = Rc(program, <<>>)
    /\ manager.scanner.source = Sources[program]
    /\ manager.current = 0
    /\ frame.ip = Len(At(manager.compilers, 0).function.chunk.bytecode)

\* C32: the code of a statement (print, expression statement, if with and
\* without else, while, for, block) leaves stack_top as it was before the
\* statement on every path: wherever a statement of the script starts,
\* the stack holds the script function alone, however the statements
\* before it have branched and looped.
C32_StatementsNetZero ==
    \A heap \in {Compiled} :
        /\ AtStatementStart => stack_top = 1
        /\ program = "statements"
              => /\ Runs(heap, "statements")
                 /\ interprets = 1
                        => \E k \in 0..Len(StatementValues) :
                              printed_values = SubSeq(StatementValues, 1, k)

\* The last statement of statements has run, after both branches of if and
\* the loops, and the Return of the script is next.
C32_AllStatementsRun ==
    \A heap \in {Compiled} :
        /\ AtStatementStart
        /\ Running(heap, "OpReturn")
        /\ printed_values = StatementValues

\* C33: a Return in a frame that is not the last one, b being the
\* stack_index of the frame, pops the frame, leaves stack_top = b + 1 with
\* the return value in stack[b] (the callee and its arguments have made
\* room for one value), and run goes on in the function of the caller at
\* the instruction after the Call that made the frame.  A frame that a
\* binary operator's RuntimeError has left in frames is under the frame of
\* the next interpret, whose Return then goes on in it at ip 0.
C33_ReturnToCaller ==
    [][\A heap \in {Compiled} :
          (Running(heap, "OpReturn") /\ Len(frames) > 1 /\ stack_top > 0)
              => /\ status' = "running"
                 /\ frames' = Front(frames)
                 /\ stack_top' = frame.stack_index + 1
                 /\ StackGet(stack', frame.stack_index) = Top
                 /\ \A i \in 0..(frame.stack_index - 1) :
                       StackGet(stack', i) = StackGet(stack, i)
                 /\ frame' = Last(frames')
                 /\ frame'.ip > 0
                 /\ read_code(deref(heap, frame'.function).chunk,
                              frame'.ip - 1).op = "OpCall"
                 /\ frame.stack_index
                        = stack_top' - 1]_vars

\* Where the instruction at position p of a chunk sends ip: run has added
\* one to ip when it adds or subtracts the operand.
JumpTarget(code, p) ==
    IF At(code, p).op = "OpLoop" THEN p + 1 - At(code, p).arg
    ELSE p + 1 + At(code, p).arg

JumpOps == {"OpJump", "OpJumpIfFalse", "OpLoop"}

\* The positions of the jump instructions of a chunk.
JumpPositions(code) == {p \in 0..(Len(code) - 1) : At(code, p).op \in JumpOps}

\* Every jump of the function, and of the functions among its constants,
\* goes to an instruction of the chunk it is in.
RECURSIVE JumpsInRange(_)
JumpsInRange(func) ==
    /\ \A p \in JumpPositions(func.chunk.bytecode) :
          /\ JumpTarget(func.chunk.bytecode, p) >= 0
          /\ JumpTarget(func.chunk.bytecode, p) < Len(func.chunk.bytecode)
    /\ \A i \in 1..Len(func.chunk.constants) :
          func.chunk.constants[i].t = "Function"
              => JumpsInRange(func.chunk.constants[i].f)

\* C34: in the chunks of a source that compiles, every Jump, JumpIfFalse
\* and Loop has its final operand and goes to an instruction of its chunk:
\* position + 1 + offset, or position + 1 - offset for Loop, is in
\* [0, len(code)).  In statements, each JumpIfFalse of an if, while or for
\* lands on the Pop emitted right after its patch point, and each Loop on
\* the first instruction of a condition or of an increment.
C34_JumpTargets ==
    \A heap \in {Compiled} :
        /\ (program # "" /\ compiled(heap, program).ok)
              => JumpsInRange(compiled(heap, program).function)
        /\ program = "statements"
              => /\ compiled(heap, program).ok
                 /\ \A p \in JumpPositions(
                               compiled(heap, program).function.chunk.bytecode) :
                       Let([code \in {compiled(heap, program).function
                                          .chunk.bytecode} |->
                       /\ At(code, p).op = "OpJumpIfFalse"
                             => At(code, JumpTarget(code, p)).op = "OpPop"
                       /\ At(code, p).op = "OpLoop"
                             => At(code, JumpTarget(code, p)).op
                                    \in {"OpGetGlobal", "OpGetLocal"}
                       /\ At(code, p).op = "OpJump"
                             => JumpTarget(code, p) > p + 1])

\* The Loop of a for statement is about to run in a chunk that compiled.
C34_LoopRuns ==
    \A heap \in {Compiled} :
        /\ program = "statements"
        /\ Running(heap, "OpLoop")
        /\ stack_top = 2

\* What error_at has recorded in the manager.
Recorded(m) ==
    <<m.parser.had_error, m.parser.error_message, m.parser.panic_mode,
      m.stderr>>

\* C35: while panic_mode is true, error_at changes neither had_error nor
\* the recorded message, whatever the token and the message: of the errors
\* raised between two synchronizations only the first is recorded.
\* `a + b = 1;` raises "Invalid assignment target." and then, at the 1,
\* "Expect ';' after expression.", and records the first alone.
C35_SuppressedInPanicMode ==
    \A heap \in {Compiled} :
        /\ manager.parser.panic_mode
              => \A message \in CompileErrorMessages :
                    \A token \in {manager.parser.current,
                                  manager.parser.previous} :
                       /\ error_at(manager, token, message) = manager
                       /\ Recorded(error_at(manager, token, message))
                              = Recorded(manager)
        /\ compiled(heap, "assign_sum").stderr
               = <<"Invalid assignment target.">>
        /\ compiled(heap, "assign_sum").error_message
               = "Invalid assignment target."

\* The parser is in panic mode with one message recorded, and the current
\* token is the 1 of `a + b = 1` that consume will refuse.
C35_SecondErrorDue ==
    /\ manager.scanner.source = Sources["assign_sum"]
    /\ manager.parser.panic_mode
    /\ manager.stderr = <<"Expect expression.">>
    /\ manager.parser.previous.token_type = "Equal"
    /\ manager.parser.current.token_type = "Number"

\* Where synchronize stops: at the end of the source, after a ';' or
\* before a token that begins a statement.
AtBoundary(m) ==
    \/ m.parser.current.token_type = "Eof"
    \/ m.parser.previous.token_type = "Semicolon"
    \/ m.parser.current.token_type \in SyncTokens

\* A step that is a call of synchronize in panic mode.
Synchronized ==
    /\ manager.parser.panic_mode
    /\ manager' = synchronize(manager)

\* C36 as stated: when synchronize returns, panic_mode is false and the
\* parser is at a boundary, for every token stream, one in which the
\* scanner yields an Error token while tokens are skipped included.
C36_SynchronizeClearsPanicMode ==
    [][Synchronized
          => /\ ~manager'.parser.panic_mode
             /\ AtBoundary(manager')]_vars

\* C36 amended: when synchronize returns the parser is at a boundary, and
\* panic_mode is false unless an Error token was scanned and reported while
\* tokens were skipped; then panic_mode is true again and the message of
\* that token is the latest one.
C36_SynchronizeStopsAtBoundary ==
    [][Synchronized
          => /\ AtBoundary(manager')
             /\ IF manager'.parser.panic_mode
                THEN /\ Len(manager'.stderr) = Len(manager.stderr) + 1
                     /\ manager'.stderr[Len(manager'.stderr)]
                            \in {"Unexpected character.",
                                 "Unterminated string."}
                     /\ manager'.parser.error_message
                            = manager'.stderr[Len(manager'.stderr)]
                ELSE manager'.stderr = manager.stderr]_vars

\* synchronize has returned in panic mode: it cleared the flag after the
\* '|' of scan_errors, reported the '#' it skipped and ran to the end.
C36_ReturnedInPanicMode ==
    /\ manager.scanner.source = Sources["scan_errors"]
    /\ manager.parser.panic_mode
    /\ manager.parser.current.token_type = "Eof"
    /\ manager.stderr = <<"Unexpected character.", "Unexpected character.",
                          "Unexpected character.">>

\* n instructions Pop.
Pops(n) == [i \in 1..n |-> I0("OpPop")]

\* What end_scope has done between the current compilers c and c2.
ScopeEnded(c, c2) ==
    /\ c2.scope_depth = c.scope_depth - 1
    /\ c2.locals = SelectSeq(c.locals, LAMBDA l : l.depth <= c2.scope_depth)
    /\ c2.function.chunk.bytecode
           = c.function.chunk.bytecode \o Pops(Len(c.locals) - Len(c2.locals))
    /\ \A i \in 1..Len(c2.locals) : c2.locals[i].depth <= c2.scope_depth
    /\ c2.locals # <<>>
    /\ c2.locals[1] = c.locals[1]
    /\ c2.locals[1].depth = 0
    /\ c2.locals[1].name.length = 0

\* C37: end_scope decrements scope_depth by one, removes exactly the locals
\* whose depth exceeds the new scope_depth and emits exactly one Pop for each
\* of them; afterwards no local of the current compiler is deeper than
\* scope_depth, and the reserved slot 0 stays.
C37_EndScope ==
    [][EndBlock
          => /\ manager'.current = manager.current
             /\ ScopeEnded(current_compiler(manager),
                           current_compiler(manager'))]_vars

\* end_scope has removed the two locals b and c of the inner block of
\* scopes and left the a of the outer one.
C37_TwoLocalsRemoved ==
    /\ manager.scanner.source = Sources["scopes"]
    /\ manager.parser.previous.token_type = "RightBrace"
    /\ current_compiler(manager).scope_depth = 1
    /\ Len(current_compiler(manager).locals) = 2
    /\ Let([code \in {current_compiler(manager).function.chunk.bytecode} |->
          /\ Len(code) > 3
          /\ SubSeq(code, Len(code) - 2, Len(code))
                 = <<I0("OpPrint"), I0("OpPop"), I0("OpPop")>>])

\* C38: between two instructions, while frames is not empty, the
\* stack_index values of the frames strictly increase from the oldest to
\* the newest, each is smaller than stack_top, and the stack holds at the
\* stack_index of a frame the Function that the frame executes.
C38_FramesOnStack ==
    (status # "panicked" /\ frames # <<>>)
       => /\ \A i \in 1..Len(frames) : \A j \in 1..Len(frames) :
                i < j => frames[i].stack_index < frames[j].stack_index
          /\ \A i \in 1..Len(frames) :
                /\ frames[i].stack_index < stack_top
                /\ StackGet(stack, frames[i].stack_index)
                       = FunctionValue(frames[i].function)

\* The SetLocal of `x = x + 1` has run in the frame of f, above the frame
\* of the script: slot 1 of the frame holds 2 and slot 0 the function f.
C38_ParameterSet ==
    \A heap \in {Compiled} :
        /\ program = "set_parameter"
        /\ status = "running"
        /\ Len(frames) = 2
        /\ frame.ip > 0
        /\ deref(heap, frame.function).chunk.bytecode[frame.ip]
               = I1("OpSetLocal", 1)
        /\ StackGet(stack, frames[2].stack_index + 1) = Num(2)
        /\ StackGet(stack, frames[2].stack_index)
               = FunctionValue(frame.function)

\* The place of the current token in the source.
Place(m) == m.parser.current.start

\* C39: CompilerManager::compile terminates on every source.  A turn of the
\* loop of compile and of the loop of block consumes at least one token
\* unless the current token is Eof; so does the advance that synchronize
\* calls in its loop and that match_token calls on the ',' of the loops of
\* parameters and arguments; and the scanner keeps returning Eof once the
\* end of the source is reached.
C39_CompileTerminates ==
    /\ <>CompileReturned
    /\ [][/\ CompileTurn
                => /\ manager' = compile_turn(manager)
                   /\ \/ Place(manager') > Place(manager)
                      \/ check(manager, "Eof")
          /\ (manager.compilers # <<>> /\ ~check(manager, "Eof"))
                => /\ Place(advance(manager)) > Place(manager)
                   /\ Place(synchronize(manager)) >= Place(manager)
          /\ (manager.compilers # <<>> /\ check(manager, "Eof"))
                => /\ check(manager', "Eof")
                   /\ check(advance(manager), "Eof")
                   /\ check(advance(advance(manager)), "Eof")
                   /\ scan_token(manager.scanner).tok.token_type = "Eof"]_vars

\* compile has returned for scopes, the blocks of it closed one by one.
C39_ScopesCompiled ==
    \A heap \in {Compiled} :
        /\ CompileReturned
        /\ manager.scanner.source = Sources["scopes"]
        /\ manager.compilers[1].function = compiled(heap, "scopes").function

\* A step in which runtime_error has written a trace and reset the stacks.
Traced ==
    /\ status = "running"
    /\ status' = "idle"
    /\ result' = "RuntimeError"
    /\ frames # <<>>
    /\ frames' = <<>>

\* C40: in the stack trace of a runtime error the frames are listed newest
\* to oldest, the line of the newest frame is the line of the instruction
\* whose execution raised the error (the one at the ip of the running frame
\* before the step), and every ip that indexes chunk.lines is in range.
C40_TraceLineOfError ==
    [][\A heap \in {Compiled} :
          Traced
             => /\ Len(error_trace') = Len(frames)
                /\ \A j \in 1..Len(frames) :
                      /\ error_trace'[j].name
                            = deref(heap, frames[Len(frames) + 1 - j].function).name
                      /\ frames[j].ip
                            < Len(deref(heap, frames[j].function).chunk.lines)
                /\ error_trace'[1].line
                      = At(deref(heap, frame.function).chunk.lines, frame.ip)]_vars
====
